---------------------------- MODULE Spec2Model ----------------------------
(***************************************************************************)
(* A model of CohereService (src/fesm2022/ngx-gen-ai-chat.mjs): the        *)
(* streaming, tool-augmented conversation loop of ngx-gen-ai-chat.         *)
(*                                                                         *)
(*   SpecJson    ensureJsonString as a pure function over bounded strings  *)
(*   SpecDecode  readStream decoding one response body, read in chunks    *)
(*   SpecRestart the same, on bodies that start a tool call twice         *)
(*   SpecSse     the same, on bodies framed as server-sent events         *)
(*   Spec        the service: generateResponse, stopStream, the requests   *)
(*               of each generation and its tool dispatches                *)
(*   SpecExecutor  one generation and the tool dispatches of its responses *)
(*   SpecTurns   one generation whose responses carry several texts        *)
(*   SpecHandlers  one generation whose handler returns what cannot be     *)
(*               serialised                                                *)
(*   SpecStore   AiChatStore over the service: processMessage, stopRequest,*)
(*               clearChat, initialize and the channel's callbacks         *)
(*                                                                         *)
(* Strings are sequences of one-character strings, so that trimming,       *)
(* parsing and serialisation are computed and not assumed.                 *)
(***************************************************************************)
EXTENDS Integers, Sequences, FiniteSets, TLC

VARIABLES
    val,            \* ensureJsonString: the argument of the call under study
    ret,            \* ensureJsonString: its return value, or NotCalled
    content,        \* readStream: the whole response body, a sequence of atoms
    pos,            \* readStream: how many atoms the reads have delivered
    reader,         \* readStream: buffer, currentEventType, toolCallsMap, ending
    subject,        \* readStream: what the subject was given, in order
    cutInLine,      \* history: some read so far has ended inside a line
    abortController,\* CohereService.abortController: 0 (null) or a controller
    aborted,        \* the controllers on which abort() has been called
    toolCache,      \* CohereService.toolCache: cache key -> result list
    gens,           \* the generations started so far, one record each
    requests,       \* history: how many times fetch has been called
    invoked,        \* history: cache key -> how many times its handler was invoked
    returnedKeys,   \* history: cache keys whose handler has returned normally
    endedKeys,      \* history: cache keys of the batches whose Promise.all resolved
    cancelled,      \* history: generations the caller cancelled before they ended
    replayed,       \* history: what happened to calls of a key in endedKeys
    chat,           \* AiChatStore: store.messages()
    isProcessing,   \* AiChatStore: store.isProcessing()
    msgSubscription \* AiChatStore: the subscription of processMessage, or none

jsonVars == <<val, ret>>
decodeVars == <<content, pos, reader, subject, cutInLine>>
serviceVars ==
    <<abortController, aborted, toolCache, gens, requests, invoked, returnedKeys,
      endedKeys, cancelled, replayed>>
storeVars == <<chat, isProcessing, msgSubscription>>
vars == <<val, ret, content, pos, reader, subject, cutInLine,
          abortController, aborted, toolCache, gens, requests, invoked, returnedKeys,
          endedKeys, cancelled, replayed, chat, isProcessing, msgSubscription>>

(***************************************************************************)
(* Bounds                                                                  *)
(***************************************************************************)
MaxStrLen == 3      \* longest argument string given to ensureJsonString
MaxLines == 3       \* most lines in a response body given to readStream alone
MaxRequests == 3    \* most HTTP requests issued by one service instance
MaxTexts == 1       \* most text events in the responses of one generation
MaxTurnTexts == 2   \* the same, where the order of the texts is under study
MaxMarkers == 1     \* most "stopped by user" markers in the messages on display
MaxExchanges == 2   \* most messages the user of the store gets accepted

(***************************************************************************)
(* Characters and strings                                                  *)
(***************************************************************************)
\* "nbsp" stands for U+00A0: white space to String.prototype.trim, but not
\* one of the four white-space characters of the JSON grammar.
Chars == {" ", "nbsp", "{", "}", "\"", "\\", "a", "1"}
TrimWhiteSpace == {" ", "nbsp"}
JsonWhiteSpace == {" "}

RECURSIVE StringsUpTo(_)
StringsUpTo(n) ==
    IF n = 0 THEN {<< >>}
    ELSE LET shorter == StringsUpTo(n - 1)
         IN  shorter \cup {Append(s, c) : s \in {t \in shorter : Len(t) = n - 1}, c \in Chars}

RECURSIVE StripLeft(_, _)
StripLeft(s, ws) ==
    IF s # << >> /\ Head(s) \in ws THEN StripLeft(Tail(s), ws) ELSE s

RECURSIVE StripRight(_, _)
StripRight(s, ws) ==
    IF s # << >> /\ s[Len(s)] \in ws THEN StripRight(SubSeq(s, 1, Len(s) - 1), ws) ELSE s

\* String.prototype.trim
trim(s) == StripRight(StripLeft(s, TrimWhiteSpace), TrimWhiteSpace)

IsPrefix(s, t) == Len(s) <= Len(t) /\ SubSeq(t, 1, Len(s)) = s

(***************************************************************************)
(* JSON.parse and JSON.stringify on the texts the alphabet can spell: the  *)
(* empty object, numbers made of the digit 1, and string literals.         *)
(***************************************************************************)
ParseFailure == [ok |-> FALSE, kind |-> "none", str |-> << >>]

\* The body of a string literal, with its escapes undone; only \" and \\ are
\* escapes over this alphabet, a lone quote or backslash is a syntax error.
RECURSIVE Unescape(_)
Unescape(body) ==
    IF body = << >> THEN [ok |-> TRUE, str |-> << >>]
    ELSE IF Head(body) = "\"" THEN [ok |-> FALSE, str |-> << >>]
    ELSE IF Head(body) = "\\" THEN
        IF Len(body) >= 2 /\ body[2] \in {"\"", "\\"}
        THEN LET rest == Unescape(SubSeq(body, 3, Len(body)))
             IN  [ok |-> rest.ok, str |-> <<body[2]>> \o rest.str]
        ELSE [ok |-> FALSE, str |-> << >>]
    ELSE LET rest == Unescape(Tail(body))
         IN  [ok |-> rest.ok, str |-> <<Head(body)>> \o rest.str]

JSONparse(text) ==
    LET b == StripRight(StripLeft(text, JsonWhiteSpace), JsonWhiteSpace)
        n == Len(b)
    IN  IF n = 0 THEN ParseFailure
        ELSE IF b[1] = "{" THEN
            IF n >= 2 /\ b[n] = "}" /\ \A i \in 2..(n - 1) : b[i] \in JsonWhiteSpace
            THEN [ok |-> TRUE, kind |-> "object", str |-> << >>]
            ELSE ParseFailure
        ELSE IF b[1] = "1" THEN
            IF \A i \in 1..n : b[i] = "1"
            THEN [ok |-> TRUE, kind |-> "number", str |-> b]
            ELSE ParseFailure
        ELSE IF b[1] = "\"" THEN
            IF n >= 2 /\ b[n] = "\""
            THEN LET u == Unescape(SubSeq(b, 2, n - 1))
                 IN  IF u.ok THEN [ok |-> TRUE, kind |-> "string", str |-> u.str]
                     ELSE ParseFailure
            ELSE ParseFailure
        ELSE ParseFailure

RECURSIVE Escape(_)
Escape(s) ==
    IF s = << >> THEN << >>
    ELSE (IF Head(s) \in {"\"", "\\"} THEN <<"\\", Head(s)>> ELSE <<Head(s)>>)
         \o Escape(Tail(s))

\* JSON.stringify of a string value
JSONstringifyString(s) == <<"\"">> \o Escape(s) \o <<"\"">>

(***************************************************************************)
(* Values handed to ensureJsonString: undefined, null, a string, or a      *)
(* structured (non-string, truthy) value, here the empty object.           *)
(***************************************************************************)
Undefined == [t |-> "undefined", s |-> << >>]
Null == [t |-> "null", s |-> << >>]
EmptyObject == [t |-> "object", s |-> << >>]
Str(s) == [t |-> "string", s |-> s]

\* !val
Falsy(v) == v.t \in {"undefined", "null"} \/ (v.t = "string" /\ v.s = << >>)

\* The catch branch returning the text as it is, not serialised.
ensureJsonStringUnquoted(v) ==
    IF Falsy(v) THEN <<"{", "}">>
    ELSE IF v.t # "string" THEN <<"{", "}">>
    ELSE LET trimmed == trim(v.s)
         IN  IF trimmed = << >> THEN <<"{", "}">>
             ELSE trimmed

\* The catch branch serialising the argument and not its trimmed form.
ensureJsonStringUntrimmed(v) ==
    IF Falsy(v) THEN <<"{", "}">>
    ELSE IF v.t # "string" THEN <<"{", "}">>
    ELSE LET trimmed == trim(v.s)
         IN  IF trimmed = << >> THEN <<"{", "}">>
             ELSE IF JSONparse(trimmed).ok THEN trimmed
             ELSE JSONstringifyString(v.s)

ensureJsonString(v) ==
    IF Falsy(v) THEN <<"{", "}">>
    ELSE IF v.t # "string" THEN <<"{", "}">>    \* JSON.stringify({})
    ELSE LET trimmed == trim(v.s)
         IN  IF trimmed = << >> THEN <<"{", "}">>
             ELSE IF JSONparse(trimmed).ok THEN trimmed
             ELSE JSONstringifyString(trimmed)

(***************************************************************************)
(* The wire format.  A response body is a sequence of atoms: "\n", " ",    *)
(* the prefixes "event:" and "data:", the braces of a JSON object, the     *)
(* members of the object (a payload name), an event-type name, or "junk".  *)
(* A read boundary may fall between any two atoms.                         *)
(***************************************************************************)
\* message is the message member of a message-end: whether it has a
\* tool_calls list, and the list.
NoPayload ==
    [type |-> "", deltaText |-> "", text |-> "", index |-> 0,
     hasToolCalls |-> FALSE, hasFunction |-> FALSE,
     id |-> "", name |-> "", arguments |-> << >>,
     message |-> [hasToolCalls |-> FALSE, tool_calls |-> << >>]]

TextPayload(type, deltaText, text) ==
    [NoPayload EXCEPT !.type = type, !.deltaText = deltaText, !.text = text]

StartPayload(index, id, name, arguments) ==
    [NoPayload EXCEPT !.type = "tool-call-start", !.index = index,
                      !.hasToolCalls = TRUE, !.hasFunction = TRUE,
                      !.id = id, !.name = name, !.arguments = arguments]

DeltaPayload(index, arguments) ==
    [NoPayload EXCEPT !.type = "tool-call-delta", !.index = index,
                      !.hasToolCalls = TRUE, !.hasFunction = TRUE,
                      !.arguments = arguments]

\* The members of the JSON objects the server sends, by name.
Payload(p) ==
    CASE p = "text-Hel"       -> TextPayload("content-delta", "Hel", "")
      [] p = "text-lo"        -> TextPayload("text-generation", "", "lo")
      [] p = "text-empty"     -> TextPayload("content-delta", "", "")
      [] p = "untyped-x"      -> TextPayload("", "x", "")
      [] p = "start-0"        -> StartPayload(0, "id1", "lookup", << >>)
      [] p = "start-0-again"  -> StartPayload(0, "id3", "ghost", <<"1">>)
      [] p = "start-1"        -> StartPayload(1, "id2", "lookup", <<"{">>)
      [] p = "start-1-same"   -> StartPayload(1, "id2", "lookup", <<"{", "}">>)
      [] p = "start-1-nohandler" -> StartPayload(1, "id4", "nohandler", << >>)
      [] p = "start-no-function" ->
            [StartPayload(1, "id2", "lookup", << >>) EXCEPT !.hasFunction = FALSE]
      [] p = "start-no-tool_calls" ->
            [NoPayload EXCEPT !.type = "tool-call-start"]
      [] p = "delta-0-open"   -> DeltaPayload(0, <<"{">>)
      [] p = "delta-0-close"  -> DeltaPayload(0, <<"}">>)
      [] p = "delta-1-close"  -> DeltaPayload(1, <<"}">>)
      [] p = "delta-0-empty"  -> DeltaPayload(0, << >>)
      [] p = "message-end"    -> [NoPayload EXCEPT !.type = "message-end"]
      [] p = "message-end-no-calls" ->
            [NoPayload EXCEPT !.type = "message-end",
                              !.message = [hasToolCalls |-> TRUE, tool_calls |-> << >>]]
      [] p = "message-end-other-call" ->
            [NoPayload EXCEPT !.type = "message-end",
                              !.message = [hasToolCalls |-> TRUE,
                                           tool_calls |-> <<[index |-> 0, id |-> "id9",
                                                             name |-> "lookup",
                                                             arguments |-> << >>]>>]]
      [] p = "stream-end"     -> [NoPayload EXCEPT !.type = "stream-end"]
      [] p = "unknown-type"   -> [NoPayload EXCEPT !.type = "citation-start"]

PayloadNames ==
    {"text-Hel", "text-lo", "text-empty", "untyped-x", "start-0", "start-0-again",
     "start-1", "start-1-same", "start-1-nohandler", "start-no-function", "start-no-tool_calls", "delta-0-open",
     "delta-0-close", "delta-1-close", "delta-0-empty", "message-end",
     "message-end-no-calls", "message-end-other-call", "stream-end", "unknown-type"}

\* JSON.parse of a line that starts with "{": an object is "{", white space,
\* at most one group of members, white space, "}".
ParseObject(cleanLine) ==
    LET inner == StripRight(StripLeft(SubSeq(cleanLine, 2, Len(cleanLine) - 1),
                                      JsonWhiteSpace), JsonWhiteSpace)
    IN  IF Len(cleanLine) < 2 \/ cleanLine[Len(cleanLine)] # "}"
        THEN [ok |-> FALSE, parsed |-> NoPayload]
        ELSE IF inner = << >> THEN [ok |-> TRUE, parsed |-> NoPayload]
        ELSE IF Len(inner) = 1 /\ inner[1] \in PayloadNames
        THEN [ok |-> TRUE, parsed |-> Payload(inner[1])]
        ELSE [ok |-> FALSE, parsed |-> NoPayload]

(***************************************************************************)
(* readStream: the state of one reader, and what one line does to it.      *)
(* toolCallsMap is a Map: a sequence of entries in insertion order, one    *)
(* per index.  emits are the texts given to subject.next by the read in    *)
(* progress; ending is what the reader did last: "none", "complete"        *)
(* (subject.complete) or "tools" (handleToolCalls with toolCalls).         *)
(***************************************************************************)
NewReader ==
    [buffer |-> << >>, currentEventType |-> << >>, toolCallsMap |-> << >>,
     emits |-> << >>, ending |-> "none", toolCalls |-> << >>]

MapHas(map, index) == \E i \in 1..Len(map) : map[i].index = index
MapPos(map, index) == CHOOSE i \in 1..Len(map) : map[i].index = index

\* toolCallsMap.set(index, entry) adding an entry whatever the map holds
MapSetAppending(map, index, entry) == Append(map, entry)

\* toolCallsMap.set(index, entry): a key already there keeps its place.
MapSet(map, index, entry) ==
    IF MapHas(map, index)
    THEN [map EXCEPT ![MapPos(map, index)] = entry]
    ELSE Append(map, entry)

\* case 'tool-call-delta', appending at the wrong end
ToolCallDeltaPrepending(rd, parsed) ==
    IF MapHas(rd.toolCallsMap, parsed.index) /\ parsed.arguments # << >>
    THEN [rd EXCEPT !.toolCallsMap[MapPos(rd.toolCallsMap, parsed.index)].arguments =
                        parsed.arguments \o @]
    ELSE rd

\* case 'tool-call-delta', creating the entry it does not find
ToolCallDeltaCreating(rd, parsed) ==
    IF parsed.arguments = << >> THEN rd
    ELSE IF MapHas(rd.toolCallsMap, parsed.index)
    THEN [rd EXCEPT !.toolCallsMap[MapPos(rd.toolCallsMap, parsed.index)].arguments =
                        @ \o parsed.arguments]
    ELSE [rd EXCEPT !.toolCallsMap =
            Append(@, [index |-> parsed.index, id |-> "", name |-> "",
                       arguments |-> parsed.arguments])]

\* case 'tool-call-delta'
ToolCallDelta(rd, parsed) ==
    IF MapHas(rd.toolCallsMap, parsed.index) /\ parsed.arguments # << >>
    THEN [rd EXCEPT !.toolCallsMap[MapPos(rd.toolCallsMap, parsed.index)].arguments =
                        @ \o parsed.arguments]
    ELSE rd

\* case 'tool-call-start'; a tool_calls without function throws a TypeError,
\* which the catch around the line swallows.
ToolCallStart(rd, parsed) ==
    IF parsed.hasToolCalls /\ parsed.hasFunction
    THEN [rd EXCEPT !.toolCallsMap =
            MapSet(@, parsed.index,
                   [index |-> parsed.index, id |-> parsed.id, name |-> parsed.name,
                    arguments |-> parsed.arguments])]
    ELSE rd

\* case 'content-delta', 'text-generation'
ContentDelta(rd, parsed) ==
    LET text == IF parsed.deltaText # "" THEN parsed.deltaText ELSE parsed.text
    IN  IF text # "" THEN [rd EXCEPT !.emits = Append(@, text)] ELSE rd

\* case 'message-end'
MessageEnd(rd, parsed) ==
    IF Len(rd.toolCallsMap) > 0
    THEN [rd EXCEPT !.ending = "tools", !.toolCalls = rd.toolCallsMap]
    ELSE [rd EXCEPT !.ending = "complete"]

\* switch (eventType), with stream-end falling into case 'message-end'
DispatchStreamEndAsMessageEnd(rd, parsed) ==
    LET eventType == IF parsed.type # "" THEN <<parsed.type>> ELSE rd.currentEventType
    IN  CASE eventType \in {<<"content-delta">>, <<"text-generation">>} -> ContentDelta(rd, parsed)
          [] eventType = <<"tool-call-start">> -> ToolCallStart(rd, parsed)
          [] eventType = <<"tool-call-delta">> -> ToolCallDelta(rd, parsed)
          [] eventType \in {<<"message-end">>, <<"stream-end">>} -> MessageEnd(rd, parsed)
          [] OTHER -> rd

\* switch (eventType), with the recorded SSE type cleared once it was used
DispatchClearingType(rd, parsed) ==
    LET eventType == IF parsed.type # "" THEN <<parsed.type>> ELSE rd.currentEventType
        cleared == IF parsed.type # "" THEN rd ELSE [rd EXCEPT !.currentEventType = << >>]
    IN  CASE eventType \in {<<"content-delta">>, <<"text-generation">>} ->
                ContentDelta(cleared, parsed)
          [] eventType = <<"tool-call-start">> -> ToolCallStart(cleared, parsed)
          [] eventType = <<"tool-call-delta">> -> ToolCallDelta(cleared, parsed)
          [] eventType = <<"message-end">> -> MessageEnd(cleared, parsed)
          [] eventType = <<"stream-end">> -> [cleared EXCEPT !.ending = "complete"]
          [] OTHER -> cleared

\* switch (eventType), without case 'text-generation'
DispatchContentDeltaOnly(rd, parsed) ==
    LET eventType == IF parsed.type # "" THEN <<parsed.type>> ELSE rd.currentEventType
    IN  CASE eventType = <<"content-delta">> -> ContentDelta(rd, parsed)
          [] eventType = <<"tool-call-start">> -> ToolCallStart(rd, parsed)
          [] eventType = <<"tool-call-delta">> -> ToolCallDelta(rd, parsed)
          [] eventType = <<"message-end">> -> MessageEnd(rd, parsed)
          [] eventType = <<"stream-end">> -> [rd EXCEPT !.ending = "complete"]
          [] OTHER -> rd

\* switch (eventType)
Dispatch(rd, parsed) ==
    LET eventType == IF parsed.type # "" THEN <<parsed.type>> ELSE rd.currentEventType
    IN  CASE eventType \in {<<"content-delta">>, <<"text-generation">>} -> ContentDelta(rd, parsed)
          [] eventType = <<"tool-call-start">> -> ToolCallStart(rd, parsed)
          [] eventType = <<"tool-call-delta">> -> ToolCallDelta(rd, parsed)
          [] eventType = <<"message-end">> -> MessageEnd(rd, parsed)
          [] eventType = <<"stream-end">> -> [rd EXCEPT !.ending = "complete"]
          [] OTHER -> rd

\* The body of the for loop, with a line that does not parse ending the stream.
ProcessLineFatal(rd, line) ==
    LET trimmed == trim(line)
        cleanLine == IF Len(trimmed) >= 2 /\ SubSeq(trimmed, 1, 2) = <<"data:", " ">>
                     THEN SubSeq(trimmed, 3, Len(trimmed))
                     ELSE trimmed
    IN  IF trimmed = << >> THEN rd
        ELSE IF Head(trimmed) = "event:"
        THEN [rd EXCEPT !.currentEventType = trim(Tail(trimmed))]
        ELSE IF cleanLine = << >> \/ Head(cleanLine) # "{" THEN rd
        ELSE IF ~ParseObject(cleanLine).ok THEN [rd EXCEPT !.ending = "complete"]
        ELSE Dispatch(rd, ParseObject(cleanLine).parsed)

\* The body of the for loop over the complete lines of a read.
ProcessLine(rd, line) ==
    LET trimmed == trim(line)
        cleanLine == IF Len(trimmed) >= 2 /\ SubSeq(trimmed, 1, 2) = <<"data:", " ">>
                     THEN SubSeq(trimmed, 3, Len(trimmed))
                     ELSE trimmed
    IN  IF trimmed = << >> THEN rd
        ELSE IF Head(trimmed) = "event:"
        THEN [rd EXCEPT !.currentEventType = trim(Tail(trimmed))]
        ELSE IF cleanLine = << >> \/ Head(cleanLine) # "{" THEN rd
        ELSE IF ~ParseObject(cleanLine).ok THEN rd
        ELSE Dispatch(rd, ParseObject(cleanLine).parsed)

\* for (const line of lines), left at the first message-end or stream-end
RECURSIVE ProcessLines(_, _)
ProcessLines(rd, lines) ==
    IF lines = << >> \/ rd.ending # "none" THEN rd
    ELSE ProcessLines(ProcessLine(rd, Head(lines)), Tail(lines))

\* buffer.split('\n')
RECURSIVE Split(_)
Split(s) ==
    IF \A i \in 1..Len(s) : s[i] # "\n" THEN <<s>>
    ELSE LET i == CHOOSE k \in 1..Len(s) : s[k] = "\n" /\ \A j \in 1..(k - 1) : s[j] # "\n"
         IN  <<SubSeq(s, 1, i - 1)>> \o Split(SubSeq(s, i + 1, Len(s)))

\* One pass of the while loop after a read that returned a chunk, dropping
\* the partial line at the end of the read.
FeedDroppingPartialLine(rd, chunk) ==
    LET lines == Split(rd.buffer \o chunk)
    IN  ProcessLines([rd EXCEPT !.buffer = << >>, !.emits = << >>],
                     SubSeq(lines, 1, Len(lines) - 1))

\* One pass of the while loop after a read that returned a chunk.
Feed(rd, chunk) ==
    LET lines == Split(rd.buffer \o chunk)
    IN  ProcessLines([rd EXCEPT !.buffer = lines[Len(lines)], !.emits = << >>],
                     SubSeq(lines, 1, Len(lines) - 1))

(***************************************************************************)
(* handleToolCalls: the tool executor                                      *)
(***************************************************************************)
\* config.tools: "lookup" has a handler, "nohandler" is registered without
\* one; any other name ("ghost") is not registered.
RegisteredTools == {"lookup", "nohandler"}
ToolsWithHandler == {"lookup"}

\* What an invocation of a handler may do: return a value, return a list,
\* throw, or return a value that JSON.stringify rejects (a BigInt).
HandlerOutcomes == {"value", "list", "throws"}

ListResult(items) == [isError |-> FALSE, items |-> items, error |-> << >>]
ErrorResult(message) == [isError |-> TRUE, items |-> << >>, error |-> message]

\* result = Array.isArray(result) ? result : [result]
HandlerResult(outcome) ==
    IF outcome = "list" THEN ListResult(<<"r1", "r2">>)
    ELSE IF outcome = "bigint" THEN ListResult(<<"10n">>)
    ELSE ListResult(<<"r">>)

\* JSON.stringify(content) returns: it throws a TypeError on a BigInt.
Serialisable(result) == \A n \in 1..Len(result.items) : result.items[n] # "10n"

\* String(new Error(...))
HandlerNotFound(name) == ErrorResult(<<"Error: ", "Tool handler for \"", name, "\" not found">>)
HandlerThrew == ErrorResult(<<"Error: ", "boom">>)

\* `${call.name}:${safeArgs}`
CacheKey(call) == <<call.name, ":">> \o ensureJsonString(Str(call.arguments))

\* The map callback of one call up to its first await, looking up nothing.
StartCallIgnoringCache(call, cache) ==
    LET base == [id |-> call.id, name |-> call.name, cacheKey |-> CacheKey(call)]
    IN  IF call.name \notin ToolsWithHandler
        THEN base @@ [state |-> "failed", result |-> HandlerNotFound(call.name)]
        ELSE base @@ [state |-> "running", result |-> ListResult(<< >>)]

\* The map callback of one call up to its first await: a cache hit returns,
\* a missing handler throws into the catch, otherwise the handler is invoked
\* and awaited.
StartCall(call, cache) ==
    LET base == [id |-> call.id, name |-> call.name, cacheKey |-> CacheKey(call)]
    IN  IF CacheKey(call) \in DOMAIN cache
        THEN base @@ [state |-> "cached", result |-> cache[CacheKey(call)]]
        ELSE IF call.name \notin ToolsWithHandler
        THEN base @@ [state |-> "failed", result |-> HandlerNotFound(call.name)]
        ELSE IF ~JSONparse(ensureJsonString(Str(call.arguments))).ok
        THEN base @@ [state |-> "failed", result |-> ErrorResult(<<"SyntaxError: ", "JSON">>)]
        ELSE base @@ [state |-> "running", result |-> ListResult(<< >>)]

\* toolCalls.map with one missing handler failing the whole batch
StartCallsFailingTogether(toolCalls, cache) ==
    IF \E i \in 1..Len(toolCalls) : StartCall(toolCalls[i], cache).state = "failed"
    THEN [i \in 1..Len(toolCalls) |->
            [StartCall(toolCalls[i], cache) EXCEPT
                !.state = "failed", !.result = HandlerNotFound(toolCalls[i].name)]]
    ELSE [i \in 1..Len(toolCalls) |-> StartCall(toolCalls[i], cache)]

\* toolCalls.map(async (call) => ...): every callback runs to its first await
\* before any of them resumes, so all of them see the same cache.
StartCalls(toolCalls, cache) ==
    [i \in 1..Len(toolCalls) |-> StartCall(toolCalls[i], cache)]

\* No call of the batch is taken to be waiting for its handler
RunningNone(calls) == {}

\* The calls of the batch whose handler was invoked and has not settled.
Running(calls) == {i \in 1..Len(calls) : calls[i].state = "running"}

\* The handler of a running call settles, without this.toolCache.set.
SettleWithoutCaching(call, outcome, cache) ==
    IF outcome = "throws"
    THEN [call |-> [call EXCEPT !.state = "threw", !.result = HandlerThrew], cache |-> cache]
    ELSE [call |-> [call EXCEPT !.state = "returned", !.result = HandlerResult(outcome)],
          cache |-> cache]

\* The handler of a running call settles, and what it threw is cached like a
\* result.
SettleCachingThrown(call, outcome, cache) ==
    IF outcome = "throws"
    THEN [call |-> [call EXCEPT !.state = "threw", !.result = HandlerThrew],
          cache |-> (call.cacheKey :> HandlerThrew) @@ cache]
    ELSE [call |-> [call EXCEPT !.state = "returned", !.result = HandlerResult(outcome)],
          cache |-> (call.cacheKey :> HandlerResult(outcome)) @@ cache]

\* The handler of a running call settles: the rest of the try block, or the
\* catch block.
Settle(call, outcome, cache) ==
    IF outcome = "throws"
    THEN [call |-> [call EXCEPT !.state = "threw", !.result = HandlerThrew], cache |-> cache]
    ELSE [call |-> [call EXCEPT !.state = "returned", !.result = HandlerResult(outcome)],
          cache |-> (call.cacheKey :> HandlerResult(outcome)) @@ cache]

\* JSON.stringify(content), as tokens
JSONstringifyResult(result) ==
    IF result.isError THEN <<"{", "\"error\"", ":">> \o result.error \o <<"}">>
    ELSE <<"[">> \o result.items \o <<"]">>

wrapToolResult(id, result) ==
    [role |-> "tool", tool_call_id |-> id, tool_calls |-> << >>,
     content |-> JSONstringifyResult(result)]

RECURSIVE SelectSeq2(_, _)
SelectSeq2(s, keep) ==
    IF s = << >> THEN << >>
    ELSE (IF Head(s) \in keep THEN <<Head(s)>> ELSE << >>) \o SelectSeq2(Tail(s), keep)

\* Promise.all keeping only the calls that produced a list
ToolResultsWithoutErrors(calls) ==
    LET ok == {i \in 1..Len(calls) : ~calls[i].result.isError}
        kept == SelectSeq2([i \in 1..Len(calls) |-> i], ok)
    IN  [n \in 1..Len(kept) |-> wrapToolResult(calls[kept[n]].id, calls[kept[n]].result)]

\* const toolResults = await Promise.all(...): one message per call, in call order
ToolResults(calls) ==
    [i \in 1..Len(calls) |-> wrapToolResult(calls[i].id, calls[i].result)]

\* assistantMessage?.tool_calls || toolCalls: an empty list is truthy
Listed(assistantMessage, toolCalls) ==
    IF assistantMessage.hasToolCalls THEN assistantMessage.tool_calls ELSE toolCalls

\* The assistant message of nextBody, listing these tool calls.
AssistantMessage(toolCalls) ==
    [role |-> "assistant", tool_call_id |-> "",
     tool_calls |-> [i \in 1..Len(toolCalls) |->
                        [id |-> toolCalls[i].id, name |-> toolCalls[i].name,
                         arguments |-> ensureJsonString(
                            IF toolCalls[i].arguments = << >> THEN Undefined
                            ELSE Str(toolCalls[i].arguments))]],
     content |-> << >>]

\* nextBody.messages, with ...previousMessages last
NextMessagesPrepending(previousMessages, toolCalls, calls) ==
    <<AssistantMessage(toolCalls)>> \o ToolResults(calls) \o previousMessages

\* nextBody.messages, without ...previousMessages
NextMessagesWithoutHistory(previousMessages, toolCalls, calls) ==
    <<AssistantMessage(toolCalls)>> \o ToolResults(calls)

\* nextBody.messages
NextMessages(previousMessages, toolCalls, calls) ==
    previousMessages \o <<AssistantMessage(toolCalls)>> \o ToolResults(calls)

(***************************************************************************)
(* generateResponse, stopStream, processRequest                            *)
(***************************************************************************)
InitialMessages ==
    <<[role |-> "system", tool_call_id |-> "", tool_calls |-> << >>, content |-> << >>],
      [role |-> "user", tool_call_id |-> "", tool_calls |-> << >>, content |-> << >>]>>

\* The config the caller passes to generateResponse: a model name, the tools
\* of RegisteredTools and one document.
Config ==
    [modelName |-> "command-r-08-2024", tools |-> RegisteredTools, documents |-> <<"doc">>]

\* transformTools(tools): undefined for no tools, a function descriptor each
\* otherwise
transformTools(tools) ==
    [defined |-> tools # {},
     functions |-> {[type |-> "function", name |-> t] : t \in tools}]

\* The body of a request without its messages; a field that JSON.stringify
\* leaves out is an empty sequence.  NoBody: no request in flight.
NoBody == [model |-> "", stream |-> FALSE, tools |-> transformTools({}), documents |-> << >>]

\* body of generateResponse
FirstBody ==
    [model |-> Config.modelName, stream |-> TRUE, tools |-> transformTools(Config.tools),
     documents |-> <<Config.documents>>]

\* nextBody of handleToolCalls, with the documents of the config
NextBodyWithDocuments ==
    [model |-> Config.modelName, stream |-> TRUE, tools |-> transformTools(Config.tools),
     documents |-> <<Config.documents>>]

\* nextBody of handleToolCalls
NextBody ==
    [model |-> Config.modelName, stream |-> TRUE, tools |-> transformTools(Config.tools),
     documents |-> << >>]

\* processRequest whose readStream goes on with the accumulator of the
\* response before
ProcessRequestKeepingAccumulator(gen, messages, controller) ==
    [gen EXCEPT !.pc = "fetch", !.signal = controller, !.messages = messages,
                !.reader = [NewReader EXCEPT !.toolCallsMap = gen.reader.toolCallsMap],
                !.sawEnd = FALSE, !.started = {}]

\* processRequest up to await fetch(...): the request carries the signal of
\* whatever controller this.abortController holds at that moment.
ProcessRequest(gen, messages, controller) ==
    [gen EXCEPT !.pc = "fetch", !.signal = controller, !.messages = messages,
                !.reader = NewReader, !.sawEnd = FALSE, !.started = {}]

\* processRequest always awaiting with the signal of the generation's own
\* controller
ProcessRequestOwnSignal(gen, messages, controller) ==
    [gen EXCEPT !.pc = "fetch", !.signal = gen.controller, !.messages = messages,
                !.reader = NewReader, !.sawEnd = FALSE, !.started = {}]

\* The errors that reach the catch of processRequest.  The message is a
\* sequence of pieces; what a server writes in the body of a non-2xx response
\* is its own business.
NoError == [name |-> "", message |-> << >>]
AbortError == [name |-> "AbortError", message |-> <<"The operation was aborted.">>]
NetworkError == [name |-> "TypeError", message |-> <<"Failed to fetch">>]
NoBodyError == [name |-> "Error", message |-> <<"Response body is unavailable">>]
ApiError(response) ==
    [name |-> "Error",
     message |-> <<"Cohere API Error ", response.status, ": ", response.text>>]

\* What fetch may resolve with: a streaming body, no body at all, or a status
\* outside 200..299 with a body text.
OkResponse == [ok |-> TRUE, status |-> "200", hasBody |-> TRUE, text |-> ""]
NoBodyResponse == [ok |-> TRUE, status |-> "200", hasBody |-> FALSE, text |-> ""]
RateLimited == [ok |-> FALSE, status |-> "429", hasBody |-> TRUE, text |-> "rate limited"]
Unavailable ==
    [ok |-> FALSE, status |-> "503", hasBody |-> TRUE, text |-> "upstream aborted the request"]

\* toolCalls are the tool calls that the assistant message of the follow-up
\* request lists, calls the tool calls of the response, being executed.
\* given is the array of messages the caller passed, which the service only
\* reads, for as long as the generation runs; body is the body of the request in flight, without its messages;
\* response is the response whose body text is awaited, error what
\* subject.error was given, locks the number of body readers that readStream
\* frames of the generation hold locked.  produced, closing, dropped and
\* sawEnd are history: the texts the responses carried, what ended the
\* generation, how many entries the accumulator held when a stream-end ended
\* it, whether a message-end of the response being read was dispatched, and
\* the tool calls the response being read has started, as pairs of index and
\* id, a later start at an index superseding the earlier one.
NewGeneration(g) ==
    [pc |-> "start", controller |-> g, signal |-> 0, reader |-> NewReader,
     toolCalls |-> << >>, calls |-> << >>, subject |-> << >>, messages |-> << >>,
     response |-> OkResponse, error |-> NoError, locks |-> 0,
     produced |-> << >>, closing |-> "", dropped |-> 0, sawEnd |-> FALSE,
     started |-> {}, body |-> NoBody, given |-> InitialMessages]

\* The generation ends because of `by`.
Closing(gen, by) ==
    [gen EXCEPT !.closing = by,
                !.dropped = IF by = "stream-end" THEN Len(gen.reader.toolCallsMap) ELSE 0]

\* The signal of a generation's pending fetch or read has been aborted.
Aborted(gen) == gen.signal # 0 /\ gen.signal \in aborted

\* subject.complete() / subject.error(error), with the frames of the
\* generation carrying on
FinishCarryingOn(gen, signal) == [gen EXCEPT !.subject = Append(@, signal)]

\* subject.complete() / subject.error(error), the frames returning without a
\* finally block
FinishWithoutFinally(gen, signal) ==
    [gen EXCEPT !.pc = "done", !.subject = Append(@, signal), !.signal = 0,
                !.reader = NewReader, !.toolCalls = << >>, !.calls = << >>,
                !.messages = << >>, !.response = OkResponse, !.sawEnd = FALSE,
                !.started = {}, !.body = NoBody, !.given = << >>]

\* subject.complete() / subject.error(error), after which every frame of the
\* generation returns, the readStream frames through their finally block
Finish(gen, signal) ==
    [gen EXCEPT !.pc = "done", !.subject = Append(@, signal), !.signal = 0,
                !.reader = NewReader, !.toolCalls = << >>, !.calls = << >>,
                !.messages = << >>, !.response = OkResponse, !.locks = 0,
                !.sawEnd = FALSE, !.started = {}, !.body = NoBody, !.given = << >>]

\* catch (error) of processRequest, completing whatever the error
CatchCompleting(gen, error) == Finish(Closing(gen, "abort"), "complete")

\* catch (error) of processRequest, returning on an AbortError without
\* subject.complete()
CatchSilent(gen, error) ==
    IF error.name = "AbortError"
    THEN [Finish(Closing(gen, "abort"), "complete") EXCEPT !.subject = gen.subject]
    ELSE Finish([Closing(gen, "error") EXCEPT !.error = error], "error")

\* catch (error) of processRequest
Catch(gen, error) ==
    IF error.name = "AbortError"
    THEN Finish(Closing(gen, "abort"), "complete")
    ELSE Finish([Closing(gen, "error") EXCEPT !.error = error], "error")

\* await this.handleToolCalls(...) throws and nothing around the line catches
\* it: the TypeError leaves readStream for the catch of processRequest
ThrownUncaught(gen) ==
    Catch(gen, [name |-> "TypeError", message |-> <<"Do not know how to serialize a BigInt">>])

\* await this.handleToolCalls(...) throws, because wrapToolResult did: the
\* catch around the line logs a warning, reader.cancel() and return are
\* skipped, and the for loop goes on with the next line of the same response.
Thrown(gen) ==
    [gen EXCEPT !.pc = "read", !.reader.ending = "none", !.toolCalls = << >>,
                !.calls = << >>, !.sawEnd = TRUE]

\* Requests already issued plus the follow-up requests that pending tool
\* dispatches will issue.
Committed == requests + Cardinality({g \in 1..Len(gens) : gens[g].pc = "tools"})

Ended(gen) == gen.pc = "done"

\* this.abortController?.abort(); this.abortController = null;
AbortCurrent ==
    /\ aborted' = aborted \cup (IF abortController = 0 THEN {} ELSE {abortController})
    /\ cancelled' = cancelled \cup
            (IF abortController # 0 /\ ~Ended(gens[abortController])
             THEN {abortController} ELSE {})

\* stopStream aborting the controller and leaving it in the slot
StopStreamKeepingSlot ==
    /\ AbortCurrent
    /\ abortController' = abortController
    /\ UNCHANGED <<toolCache, gens, requests, invoked, returnedKeys, endedKeys, replayed>>
    /\ UNCHANGED <<jsonVars, decodeVars>>

StopStream ==
    /\ AbortCurrent
    /\ abortController' = 0
    /\ UNCHANGED <<toolCache, gens, requests, invoked, returnedKeys, endedKeys, replayed>>
    /\ UNCHANGED <<jsonVars, decodeVars>>

\* generateResponse(config, messages)
GenerateResponseWith(messages) ==
    /\ Committed < MaxRequests
    /\ AbortCurrent
    /\ LET g == Len(gens) + 1
       IN  /\ abortController' = g
           /\ gens' = Append(gens, ProcessRequest([NewGeneration(g) EXCEPT !.body = FirstBody,
                                                                           !.given = messages],
                                                  messages, g))
    /\ requests' = requests + 1
    /\ UNCHANGED <<toolCache, invoked, returnedKeys, endedKeys, replayed>>
    /\ UNCHANGED <<jsonVars, decodeVars>>

\* generateResponse called with a system turn and a user turn
GenerateResponse == GenerateResponseWith(InitialMessages)

\* await fetch(...) resolves: with a body, without one, or with a non-2xx status
FetchResolves(g, response) ==
    /\ gens[g].pc = "fetch"
    /\ ~Aborted(gens[g])
    /\ gens' = [gens EXCEPT ![g] =
                  IF ~response.ok THEN [@ EXCEPT !.pc = "text", !.response = response]
                  ELSE IF ~response.hasBody THEN Catch(@, NoBodyError)
                  ELSE [@ EXCEPT !.pc = "read", !.locks = @ + 1]]
    /\ UNCHANGED <<abortController, aborted, toolCache, requests, invoked, returnedKeys,
                   endedKeys, cancelled, replayed>>
    /\ UNCHANGED <<jsonVars, decodeVars>>

\* await fetch(...) rejects: AbortError when its signal was aborted, a network
\* failure otherwise
FetchRejects(g) ==
    /\ gens[g].pc = "fetch"
    /\ gens' = [gens EXCEPT ![g] =
                  Catch(@, IF Aborted(gens[g]) THEN AbortError ELSE NetworkError)]
    /\ UNCHANGED <<abortController, aborted, toolCache, requests, invoked, returnedKeys,
                   endedKeys, cancelled, replayed>>
    /\ UNCHANGED <<jsonVars, decodeVars>>

\* await response.text() resolves, and the Cohere API Error is thrown
ErrorTextSettles(g) ==
    /\ gens[g].pc = "text"
    /\ ~Aborted(gens[g])
    /\ gens' = [gens EXCEPT ![g] = Catch(@, ApiError(gens[g].response))]
    /\ UNCHANGED <<abortController, aborted, toolCache, requests, invoked, returnedKeys,
                   endedKeys, cancelled, replayed>>
    /\ UNCHANGED <<jsonVars, decodeVars>>

\* await response.text() rejects: AbortError when the signal of the request
\* was aborted, a transport failure otherwise
ErrorTextRejects(g) ==
    /\ gens[g].pc = "text"
    /\ gens' = [gens EXCEPT ![g] =
                  Catch(@, IF Aborted(gens[g]) THEN AbortError ELSE NetworkError)]
    /\ UNCHANGED <<abortController, aborted, toolCache, requests, invoked, returnedKeys,
                   endedKeys, cancelled, replayed>>
    /\ UNCHANGED <<jsonVars, decodeVars>>

(***************************************************************************)
(* readStream inside a generation.  Each read delivers one whole line.     *)
(***************************************************************************)
\* The lines a response is made of when the interleaving of generations is
\* under study, and when the tool executor is.
FlightLines ==
    {<<"{", "text-Hel", "}">>, <<"{", "start-0", "}">>, <<"{", "message-end", "}">>}

\* The lines of the responses of a conversation of several turns.
TurnLines ==
    {<<"{", "text-Hel", "}">>, <<"{", "text-lo", "}">>, <<"{", "start-0", "}">>,
     <<"{", "message-end", "}">>, <<"{", "stream-end", "}">>}

ExecutorLines ==
    {<<"{", "start-0", "}">>, <<"{", "start-1-same", "}">>,
     <<"{", "start-0-again", "}">>, <<"{", "start-1-nohandler", "}">>,
     <<"{", "message-end", "}">>, <<"{", "stream-end", "}">>}

\* The event a line of bare NDJSON carries, as the server wrote it.
EventOf(line) ==
    IF Len(line) = 3 /\ line[1] = "{" /\ line[3] = "}" /\ line[2] \in PayloadNames
    THEN Payload(line[2]) ELSE NoPayload

\* The text the model produced with an event: none for other events.
TextOf(event) ==
    IF event.type \notin {"content-delta", "text-generation"} THEN << >>
    ELSE IF event.deltaText # "" THEN <<event.deltaText>>
    ELSE IF event.text # "" THEN <<event.text>>
    ELSE << >>

\* The tool calls a response has started, once it has carried this event
\* after having started `started`: a tool-call-start with its tool call and
\* function starts the call of its index afresh, other events start nothing.
StartedWith(started, event) ==
    IF event.type = "tool-call-start" /\ event.hasToolCalls /\ event.hasFunction
    THEN {p \in started : p[1] # event.index} \cup {<<event.index, event.id>>}
    ELSE started

TextCount(gen) == Cardinality({n \in 1..Len(gen.subject) : gen.subject[n] \notin {"complete", "error"}})

\* What happened to the calls of a batch whose key was in an earlier batch that
\* had ended when this one was dispatched (the second of two invocations of the
\* executor in sequence): had a handler returned for the key, and was the
\* handler invoked again.
Replays(calls) ==
    {[returned |-> calls[i].cacheKey \in returnedKeys,
      hasHandler |-> calls[i].name \in ToolsWithHandler,
      invokedAgain |-> calls[i].state = "running",
      isError |-> calls[i].state # "running" /\ calls[i].result.isError] :
        i \in {n \in 1..Len(calls) : calls[n].cacheKey \in endedKeys}}

KeysOf(calls) == {calls[i].cacheKey : i \in 1..Len(calls)}

CountInvocations(calls) ==
    [k \in DOMAIN invoked |->
        invoked[k] + Cardinality({i \in Running(calls) : calls[i].cacheKey = k})]

\* await reader.read() returns a line
ReadLine(g, line) ==
    /\ gens[g].pc = "read"
    /\ ~Aborted(gens[g])
    /\ LET gen == gens[g]
           rd == Feed(gen.reader, line \o <<"\n">>)
           event == EventOf(line)
           texts == [gen EXCEPT !.subject = @ \o rd.emits,
                                !.reader = [rd EXCEPT !.emits = << >>, !.toolCalls = << >>],
                                !.produced = @ \o TextOf(event),
                                !.started = StartedWith(@, event)]
           calls == StartCalls(rd.toolCalls, toolCache)
           listed == Listed(event.message, rd.toolCalls)
       IN  /\ rd.ending = "tools" => Committed < MaxRequests
           /\ CASE rd.ending = "none" ->
                    /\ gens' = [gens EXCEPT ![g] = texts]
                    /\ UNCHANGED <<requests, invoked, endedKeys, replayed>>
                [] rd.ending = "complete" ->
                    /\ gens' = [gens EXCEPT ![g] =
                                  Finish(Closing(texts, event.type), "complete")]
                    /\ UNCHANGED <<requests, invoked, endedKeys, replayed>>
                [] rd.ending = "tools" ->
                    /\ invoked' = CountInvocations(calls)
                    /\ replayed' = replayed \cup Replays(calls)
                    /\ IF \E i \in 1..Len(calls) : ~Serialisable(calls[i].result)
                       THEN \* a cached result makes wrapToolResult throw; taken
                            \* here when no handler of the batch is left running
                            /\ Running(calls) = {}
                            /\ gens' = [gens EXCEPT ![g] = Thrown(texts)]
                            /\ UNCHANGED <<requests, endedKeys>>
                       ELSE IF Running(calls) = {}
                       THEN /\ gens' = [gens EXCEPT ![g] =
                                  ProcessRequest(
                                    [texts EXCEPT !.toolCalls = listed, !.calls = calls,
                                                  !.body = NextBody],
                                    NextMessages(gen.messages, listed, calls),
                                    abortController)]
                            /\ requests' = requests + 1
                            /\ endedKeys' = endedKeys \cup KeysOf(calls)
                       ELSE /\ gens' = [gens EXCEPT ![g] =
                                  [texts EXCEPT !.pc = "tools", !.toolCalls = listed,
                                                !.calls = calls, !.sawEnd = TRUE]]
                            /\ UNCHANGED <<requests, endedKeys>>
    /\ UNCHANGED <<abortController, aborted, toolCache, returnedKeys, cancelled>>
    /\ UNCHANGED <<jsonVars, decodeVars>>

\* await reader.read() returns done
ReadEnds(g) ==
    /\ gens[g].pc = "read"
    /\ ~Aborted(gens[g])
    /\ gens' = [gens EXCEPT ![g] = Finish(Closing(@, "end-of-data"), "complete")]
    /\ UNCHANGED <<abortController, aborted, toolCache, requests, invoked, returnedKeys,
                   endedKeys, cancelled, replayed>>
    /\ UNCHANGED <<jsonVars, decodeVars>>

\* await reader.read() rejects: AbortError when the signal of the request was
\* aborted, a transport failure otherwise
ReadRejects(g) ==
    /\ gens[g].pc = "read"
    /\ gens' = [gens EXCEPT ![g] =
                  Catch(@, IF Aborted(gens[g]) THEN AbortError ELSE NetworkError)]
    /\ UNCHANGED <<abortController, aborted, toolCache, requests, invoked, returnedKeys,
                   endedKeys, cancelled, replayed>>
    /\ UNCHANGED <<jsonVars, decodeVars>>

\* await tool.handler(params) settles for call i of the batch; when it was the
\* last one, Promise.all resolves and handleToolCalls issues the next request.
\* A result that wrapToolResult cannot serialise rejects Promise.all; that
\* outcome is taken here by the last handler of the batch still running.
HandlerSettles(g, i, outcome) ==
    /\ gens[g].pc = "tools"
    /\ i \in Running(gens[g].calls)
    /\ LET gen == gens[g]
           settled == Settle(gen.calls[i], outcome, toolCache)
           calls == [gen.calls EXCEPT ![i] = settled.call]
       IN  /\ toolCache' = settled.cache
           /\ returnedKeys' = returnedKeys \cup
                    (IF outcome = "throws" THEN {} ELSE {gen.calls[i].cacheKey})
           /\ IF ~Serialisable(settled.call.result)
              THEN /\ Running(calls) = {}
                   /\ gens' = [gens EXCEPT ![g] = Thrown(gen)]
                   /\ UNCHANGED <<requests, endedKeys>>
              ELSE IF Running(calls) = {}
              THEN /\ gens' = [gens EXCEPT ![g] =
                          ProcessRequest([gen EXCEPT !.calls = calls, !.body = NextBody],
                                         NextMessages(gen.messages, gen.toolCalls, calls),
                                         abortController)]
                   /\ requests' = requests + 1
                   /\ endedKeys' = endedKeys \cup KeysOf(calls)
              ELSE /\ gens' = [gens EXCEPT ![g] = [gen EXCEPT !.calls = calls]]
                   /\ UNCHANGED <<requests, endedKeys>>
    /\ UNCHANGED <<abortController, aborted, invoked, cancelled, replayed>>
    /\ UNCHANGED <<jsonVars, decodeVars>>

(***************************************************************************)
(* AiChatStore: the messages on display, isProcessing, and the             *)
(* subscription to the generation in progress.  The id of the assistant    *)
(* message of a generation is the number of the generation; a chunk of     *)
(* content is one element of a sequence.                                   *)
(***************************************************************************)
\* msgSubscription: the generation whose subscription the variable holds and
\* the id of its assistant message; others are the generations whose
\* subscription was replaced in the variable without being unsubscribed,
\* while they ran.
NoSubscription == [gen |-> 0, id |-> 0, others |-> {}]

\* initialState, for what the methods below use
NewStore ==
    /\ chat = << >>
    /\ isProcessing = FALSE
    /\ msgSubscription = NoSubscription

StoppedMarker == "stopped by user"
ErrorMarker == "processing failed, try again"
StartMessage == "how can I help"

UserMessage(text) == [type |-> "user", content |-> <<text>>, id |-> 0, isTyping |-> FALSE]
AssistantMessage0(id) == [type |-> "assistant", content |-> << >>, id |-> id, isTyping |-> TRUE]
StartMessageEntry ==
    [type |-> "assistant", content |-> <<StartMessage>>, id |-> -1, isTyping |-> FALSE]

\* updateAssistantMsg(id, { isTyping: false })
updateAssistantMsg(messages, id) ==
    [i \in 1..Len(messages) |->
        IF messages[i].id = id THEN [messages[i] EXCEPT !.isTyping = FALSE] ELSE messages[i]]

\* appendToAssistantMsg(id, chunk)
appendToAssistantMsg(messages, id, chunk) ==
    [i \in 1..Len(messages) |->
        IF messages[i].id = id THEN [messages[i] EXCEPT !.content = Append(@, chunk)]
        ELSE messages[i]]

\* err.message?.toLowerCase().includes('abort'), for the messages of the model
MentionsAbort(message) ==
    \E n \in 1..Len(message) :
        message[n] \in {"The operation was aborted.", "upstream aborted the request"}

\* next: (chunk) => ...
OnNext(st, id, chunk) == [st EXCEPT !.chat = appendToAssistantMsg(@, id, chunk)]

\* error: (err) => ...
OnError(st, id, err) ==
    IF err.name = "AbortError" \/ MentionsAbort(err.message) THEN st
    ELSE [chat |-> updateAssistantMsg(appendToAssistantMsg(st.chat, id, ErrorMarker), id),
          isProcessing |-> FALSE]

\* complete: () => ..., without updateAssistantMsg
OnCompleteStillTyping(st, id) == [chat |-> st.chat, isProcessing |-> FALSE]

\* complete: () => ...
OnComplete(st, id) == [chat |-> updateAssistantMsg(st.chat, id), isProcessing |-> FALSE]

\* The subscriber is called, synchronously, with each thing the subject is given.
RECURSIVE Notify(_, _, _, _)
Notify(st, id, given, err) ==
    IF given = << >> THEN st
    ELSE Notify(CASE Head(given) = "complete" -> OnComplete(st, id)
                  [] Head(given) = "error" -> OnError(st, id, err)
                  [] OTHER -> OnNext(st, id, Head(given)),
                id, Tail(given), err)

\* What a step of generation g does to the store: its subscriber, if the
\* store is still subscribed to g, is given what the subject was given.
Delivered(g) ==
    LET given == SubSeq(gens'[g].subject, Len(gens[g].subject) + 1, Len(gens'[g].subject))
        st == IF msgSubscription.gen = g \/ g \in msgSubscription.others
              THEN Notify([chat |-> chat, isProcessing |-> isProcessing],
                          g, given, gens'[g].error)
              ELSE [chat |-> chat, isProcessing |-> isProcessing]
    IN  /\ chat' = st.chat
        /\ isProcessing' = st.isProcessing
        /\ UNCHANGED msgSubscription

\* The last message, if it is the assistant's, is marked as stopped and as no
\* longer typing, twice over
StoppedTwice(messages) ==
    IF messages # << >> /\ messages[Len(messages)].type = "assistant"
    THEN updateAssistantMsg(
            appendToAssistantMsg(
                appendToAssistantMsg(messages, messages[Len(messages)].id, StoppedMarker),
                messages[Len(messages)].id, StoppedMarker),
            messages[Len(messages)].id)
    ELSE messages

\* stopRequest: the last message, if it is the assistant's, is marked as
\* stopped and as no longer typing
Stopped(messages) ==
    IF messages # << >> /\ messages[Len(messages)].type = "assistant"
    THEN updateAssistantMsg(
            appendToAssistantMsg(messages, messages[Len(messages)].id, StoppedMarker),
            messages[Len(messages)].id)
    ELSE messages

\* How many times the marker is in the content of the messages.
RECURSIVE Count(_, _)
Count(e, seq) ==
    IF seq = << >> THEN 0 ELSE (IF Head(seq) = e THEN 1 ELSE 0) + Count(e, Tail(seq))

RECURSIVE Markers(_)
Markers(messages) ==
    IF messages = << >> THEN 0
    ELSE Count(StoppedMarker, Head(messages).content) + Markers(Tail(messages))

\* stopRequest unsubscribing nothing
StopRequestStillSubscribed ==
    /\ Markers(chat) < MaxMarkers
    /\ UNCHANGED msgSubscription
    /\ StopStream
    /\ chat' = Stopped(chat)
    /\ isProcessing' = FALSE

StopRequest ==
    /\ Markers(chat) < MaxMarkers
    /\ msgSubscription' = [NoSubscription EXCEPT !.others = msgSubscription.others]
    /\ StopStream
    /\ chat' = Stopped(chat)
    /\ isProcessing' = FALSE

\* clearChat(initialMessage): store.startMessage() is not empty, so there is
\* always a first message
ClearChat ==
    /\ msgSubscription' = [NoSubscription EXCEPT !.others = msgSubscription.others]
    /\ StopStream
    /\ chat' = <<StartMessageEntry>>
    /\ isProcessing' = FALSE

\* What the user may type.
Typed == {"hi", " "}

\* { role: m.type, content: m.content }
Turn(m) == [role |-> m.type, tool_call_id |-> "", tool_calls |-> << >>, content |-> m.content]

\* history, built from all the messages of the store
HistoryOfAll(messages, text) ==
    <<[role |-> "system", tool_call_id |-> "", tool_calls |-> << >>, content |-> << >>]>>
    \o [i \in 1..Len(messages) |-> Turn(messages[i])]
    \o <<[role |-> "user", tool_call_id |-> "", tool_calls |-> << >>, content |-> <<text>>]>>

\* history: the system prompt (empty by default), store.messages().slice(0, -2)
\* as turns, and the content as the user turn; messages are those of the
\* store after the two new ones were appended
History(messages, text) ==
    <<[role |-> "system", tool_call_id |-> "", tool_calls |-> << >>, content |-> << >>]>>
    \o [i \in 1..(Len(messages) - 2) |-> Turn(messages[i])]
    \o <<[role |-> "user", tool_call_id |-> "", tool_calls |-> << >>, content |-> <<text>>]>>

ProcessMessage(text) ==
    IF text = " " \/ isProcessing
    THEN UNCHANGED vars
    ELSE /\ Len(gens) < MaxExchanges
         /\ isProcessing' = TRUE
         /\ chat' = chat \o <<UserMessage(text), AssistantMessage0(Len(gens) + 1)>>
         /\ GenerateResponseWith(
                History(chat \o <<UserMessage(text), AssistantMessage0(Len(gens) + 1)>>, text))
         /\ msgSubscription' =
                [gen |-> Len(gens) + 1, id |-> Len(gens) + 1,
                 others |-> msgSubscription.others \cup
                    (IF msgSubscription.gen # 0 /\ ~Ended(gens[msgSubscription.gen])
                     THEN {msgSubscription.gen} ELSE {})]

Initialize ==
    /\ chat' = IF chat = << >> THEN <<StartMessageEntry>> ELSE chat
    /\ UNCHANGED <<isProcessing, msgSubscription, jsonVars, decodeVars, serviceVars>>

(***************************************************************************)
(* SpecJson: one call of ensureJsonString on any bounded argument          *)
(***************************************************************************)
NotCalled == <<"not called">>

JsonInputs == {Undefined, Null, EmptyObject} \cup {Str(s) : s \in StringsUpTo(MaxStrLen)}

IdleJson == val = Undefined /\ ret = NotCalled
IdleDecode ==
    content = << >> /\ pos = 0 /\ reader = NewReader /\ subject = << >> /\ cutInLine = FALSE

\* The cache keys the tool calls of the model can have.
CacheKeys ==
    {CacheKey(Payload(p)) : p \in {q \in PayloadNames : Payload(q).type = "tool-call-start"}}

\* A service just constructed: no controller, an empty cache, no generation.
NewService ==
    /\ abortController = 0
    /\ aborted = {}
    /\ toolCache = << >>
    /\ gens = << >>
    /\ requests = 0
    /\ invoked = [k \in CacheKeys |-> 0]
    /\ returnedKeys = {}
    /\ endedKeys = {}
    /\ cancelled = {}
    /\ replayed = {}

InitJson ==
    /\ val \in JsonInputs
    /\ ret = NotCalled
    /\ IdleDecode
    /\ NewService
    /\ NewStore

CallEnsureJsonString ==
    /\ ret = NotCalled
    /\ ret' = ensureJsonString(val)
    /\ UNCHANGED <<val, decodeVars, serviceVars, storeVars>>

NextJson == CallEnsureJsonString

SpecJson == InitJson /\ [][NextJson]_vars

(***************************************************************************)
(* SpecDecode: readStream alone, on every body of up to MaxLines lines     *)
(* drawn from one family of lines, cut into reads in every possible way.   *)
(***************************************************************************)
Bare(p) == <<"{", p, "}">>

FramingLines ==
    {Bare("text-Hel"),
     <<"event:", " ", "content-delta">>,
     <<"data:", " ", "{", "untyped-x", "}">>,
     <<" ", "{", "text-lo", "}", " ">>,
     <<"{", "text-lo">>,
     <<"junk">>,
     Bare("stream-end")}

ToolLines ==
    {Bare("start-0"), Bare("start-1"), Bare("delta-0-open"), Bare("delta-0-close"),
     Bare("delta-1-close"), Bare("text-Hel"), Bare("message-end")}

\* Events of the wrong shape among well-formed ones: a tool-call-start whose
\* tool_calls has no function, and one without tool_calls.
ShapeLines ==
    {Bare("start-no-function"), Bare("start-no-tool_calls"), Bare("start-0"),
     Bare("message-end")}

LineFamilies == {FramingLines, ToolLines, ShapeLines}

RECURSIVE Bodies(_, _)
Bodies(family, n) ==
    IF n = 0 THEN {<< >>}
    ELSE LET shorter == Bodies(family, n - 1)
         IN  shorter \cup {b \o l \o <<"\n">> :
                            b \in {c \in shorter : c = << >> \/ c[Len(c)] = "\n"},
                            l \in family}
                     \cup {b \o l :
                            b \in {c \in shorter : c = << >> \/ c[Len(c)] = "\n"},
                            l \in family}

InitDecode ==
    /\ content \in UNION {Bodies(family, MaxLines) : family \in LineFamilies}
    /\ pos = 0
    /\ reader = NewReader
    /\ subject = << >>
    /\ cutInLine = FALSE
    /\ IdleJson
    /\ NewService
    /\ NewStore

\* await reader.read() returning the next k atoms of the body
ReadChunk(k) ==
    /\ reader.ending = "none"
    /\ pos + k <= Len(content)
    /\ LET rd == Feed(reader, SubSeq(content, pos + 1, pos + k))
       IN  /\ reader' = rd
           /\ subject' = subject \o rd.emits
                           \o (IF rd.ending = "complete" THEN <<"complete">> ELSE << >>)
           /\ cutInLine' = (cutInLine \/ (rd.ending = "none" /\ rd.buffer # << >>
                                            /\ pos + k < Len(content)))
    /\ pos' = pos + k
    /\ UNCHANGED <<content, jsonVars, serviceVars, storeVars>>

\* await reader.read() returning done, with what is left in buffer decoded as
\* a last line
ReadDoneFlushing ==
    /\ reader.ending = "none"
    /\ pos = Len(content)
    /\ LET rd == ProcessLine([reader EXCEPT !.buffer = << >>, !.emits = << >>], reader.buffer)
       IN  /\ reader' = [rd EXCEPT !.ending = IF @ = "none" THEN "end-of-data" ELSE @]
           /\ subject' = subject \o rd.emits
                           \o (IF rd.ending = "tools" THEN << >> ELSE <<"complete">>)
    /\ UNCHANGED <<content, pos, cutInLine, jsonVars, serviceVars, storeVars>>

\* await reader.read() returning done: the loop breaks, subject.complete()
ReadDone ==
    /\ reader.ending = "none"
    /\ pos = Len(content)
    /\ reader' = [reader EXCEPT !.ending = "end-of-data"]
    /\ subject' = Append(subject, "complete")
    /\ UNCHANGED <<content, pos, cutInLine, jsonVars, serviceVars, storeVars>>

NextDecode ==
    \/ \E k \in 1..Len(content) : ReadChunk(k)
    \/ ReadDone

SpecDecode == InitDecode /\ [][NextDecode]_vars

(***************************************************************************)
(* SpecRestart: readStream alone, on bodies in which a tool call is        *)
(* started again at an index that already has one.                         *)
(***************************************************************************)
RestartLines ==
    {Bare("start-0"), Bare("start-1"), Bare("delta-0-open"), Bare("start-0-again"),
     Bare("message-end")}

InitRestart ==
    /\ content \in Bodies(RestartLines, MaxLines)
    /\ pos = 0
    /\ reader = NewReader
    /\ subject = << >>
    /\ cutInLine = FALSE
    /\ IdleJson
    /\ NewService
    /\ NewStore

SpecRestart == InitRestart /\ [][NextDecode]_vars

(***************************************************************************)
(* SpecSse: readStream alone, on bodies framed as server-sent events:      *)
(* event: lines, data lines without a type field, and lines with one.      *)
(***************************************************************************)
SseLines ==
    {<<"event:", " ", "content-delta">>,
     <<"event:", " ", "stream-end">>,
     <<"data:", " ", "{", "untyped-x", "}">>,
     Bare("text-Hel")}

InitSse ==
    /\ content \in Bodies(SseLines, MaxLines)
    /\ pos = 0
    /\ reader = NewReader
    /\ subject = << >>
    /\ cutInLine = FALSE
    /\ IdleJson
    /\ NewService
    /\ NewStore

SpecSse == InitSse /\ [][NextDecode]_vars

(***************************************************************************)
(* Spec: one CohereService instance, its caller, the network and the tool  *)
(* handlers, interleaved in every order.                                   *)
(***************************************************************************)
Init ==
    /\ NewService
    /\ NewStore
    /\ IdleJson
    /\ IdleDecode

FlightWorld ==
    [lines |-> FlightLines, maxTexts |-> MaxTexts,
     responses |-> {OkResponse, NoBodyResponse, RateLimited},
     outcomes |-> HandlerOutcomes]

ExecutorWorld ==
    [lines |-> ExecutorLines, maxTexts |-> MaxTexts,
     responses |-> {OkResponse, NoBodyResponse, RateLimited},
     outcomes |-> HandlerOutcomes]

\* What the network and the handlers may do to generation g, in a world
\* whose servers answer with `responses` and write `lines`, at most maxTexts
\* texts to a generation, and whose handlers end in one of `outcomes`.
Progress(g, world) ==
    \/ \E response \in world.responses : FetchResolves(g, response)
    \/ FetchRejects(g)
    \/ ErrorTextSettles(g)
    \/ ErrorTextRejects(g)
    \/ \E line \in world.lines :
          /\ ReadLine(g, line)
          /\ TextCount(gens'[g]) <= world.maxTexts
    \/ ReadEnds(g)
    \/ ReadRejects(g)
    \/ \E i \in 1..Len(gens[g].calls) : \E outcome \in world.outcomes :
          HandlerSettles(g, i, outcome)

Next ==
    \/ GenerateResponse /\ UNCHANGED storeVars
    \/ StopStream /\ UNCHANGED storeVars
    \/ \E g \in 1..Len(gens) : Progress(g, FlightWorld) /\ UNCHANGED storeVars

Spec == Init /\ [][Next]_vars

(***************************************************************************)
(* SpecExecutor: a service whose caller starts one generation and lets it  *)
(* run, with responses that ask for every kind of tool call.               *)
(***************************************************************************)
GenerateFirstResponse ==
    /\ gens = << >>
    /\ GenerateResponse
    /\ UNCHANGED storeVars

NextExecutor ==
    \/ GenerateFirstResponse
    \/ \E g \in 1..Len(gens) : Progress(g, ExecutorWorld) /\ UNCHANGED storeVars

SpecExecutor == Init /\ [][NextExecutor]_vars

(***************************************************************************)
(* SpecTurns: one generation whose responses mix texts and tool calls.     *)
(***************************************************************************)
TurnWorld ==
    [lines |-> TurnLines, maxTexts |-> MaxTurnTexts,
     responses |-> {OkResponse, RateLimited}, outcomes |-> HandlerOutcomes]

NextTurns ==
    \/ GenerateFirstResponse
    \/ \E g \in 1..Len(gens) : Progress(g, TurnWorld) /\ UNCHANGED storeVars

SpecTurns == Init /\ [][NextTurns]_vars

(***************************************************************************)
(* SpecHandlers: one generation whose tool handler may return a value that *)
(* cannot be serialised.                                                   *)
(***************************************************************************)
HandlerLines ==
    {<<"{", "text-Hel", "}">>, <<"{", "start-0", "}">>, <<"{", "start-1-same", "}">>,
     <<"{", "message-end", "}">>, <<"{", "stream-end", "}">>}

HandlerWorld ==
    [lines |-> HandlerLines, maxTexts |-> MaxTexts,
     responses |-> {OkResponse, RateLimited},
     outcomes |-> {"value", "throws", "bigint"}]

NextHandlers ==
    \/ GenerateFirstResponse
    \/ \E g \in 1..Len(gens) : Progress(g, HandlerWorld) /\ UNCHANGED storeVars

SpecHandlers == Init /\ [][NextHandlers]_vars

(***************************************************************************)
(* SpecContain: one generation whose responses carry a line that does not  *)
(* parse, a delta for an index never started and a call of an unknown      *)
(* tool, and whose handler may throw or return what cannot be serialised.  *)
(***************************************************************************)
ContainLines ==
    {<<"{", "text-lo">>, <<"{", "delta-1-close", "}">>, <<"{", "start-0-again", "}">>,
     <<"{", "start-0", "}">>, <<"{", "message-end", "}">>}

ContainWorld ==
    [lines |-> ContainLines, maxTexts |-> MaxTexts,
     responses |-> {OkResponse, NoBodyResponse, RateLimited},
     outcomes |-> {"value", "throws", "bigint"}]

NextContain ==
    \/ GenerateFirstResponse
    \/ \E g \in 1..Len(gens) : Progress(g, ContainWorld) /\ UNCHANGED storeVars

SpecContain == Init /\ [][NextContain]_vars

(***************************************************************************)
(* SpecAnnounce: one generation whose message-end events carry a message   *)
(* with a tool_calls list of their own, empty or not, or none.             *)
(***************************************************************************)
AnnounceLines ==
    {<<"{", "start-0", "}">>, <<"{", "start-1-same", "}">>, <<"{", "message-end", "}">>,
     <<"{", "message-end-no-calls", "}">>, <<"{", "message-end-other-call", "}">>}

AnnounceWorld ==
    [lines |-> AnnounceLines, maxTexts |-> MaxTexts,
     responses |-> {OkResponse, RateLimited},
     outcomes |-> {"value", "throws"}]

NextAnnounce ==
    \/ GenerateFirstResponse
    \/ \E g \in 1..Len(gens) : Progress(g, AnnounceWorld) /\ UNCHANGED storeVars

SpecAnnounce == Init /\ [][NextAnnounce]_vars

(***************************************************************************)
(* SpecLive: one generation of several turns that the caller may stop,     *)
(* with a network that settles every fetch, servers whose streams end and  *)
(* handlers that settle.                                                   *)
(***************************************************************************)
\* await fetch(...) settles
FetchSettles(g) ==
    \/ \E response \in TurnWorld.responses : FetchResolves(g, response)
    \/ FetchRejects(g)

\* await response.text() settles
ErrorTextEnds(g) == ErrorTextSettles(g) \/ ErrorTextRejects(g)

\* The data of the response being read ends, or a read of it rejects: no
\* response goes on for ever.
StreamEnds(g) == ReadEnds(g) \/ ReadRejects(g)

\* await tool.handler(params) settles for one of the calls
HandlerEnds(g) ==
    \E i \in 1..Len(gens[g].calls) : \E outcome \in TurnWorld.outcomes :
        HandlerSettles(g, i, outcome)

NextLive ==
    \/ GenerateFirstResponse
    \/ StopStream /\ UNCHANGED storeVars
    \/ \E g \in 1..Len(gens) : Progress(g, TurnWorld) /\ UNCHANGED storeVars

\* Every await of the generation settles; the generation is the first one.
Fairness ==
    /\ WF_vars(Len(gens) >= 1 /\ FetchSettles(1) /\ UNCHANGED storeVars)
    /\ WF_vars(Len(gens) >= 1 /\ ErrorTextEnds(1) /\ UNCHANGED storeVars)
    /\ WF_vars(Len(gens) >= 1 /\ StreamEnds(1) /\ UNCHANGED storeVars)
    /\ WF_vars(Len(gens) >= 1 /\ HandlerEnds(1) /\ UNCHANGED storeVars)

SpecLive == Init /\ [][NextLive]_vars /\ Fairness

(***************************************************************************)
(* SpecSlot: the caller of one service starts generations and stops the    *)
(* stream in any order, over responses of plain text.                      *)
(***************************************************************************)
SlotLines == {<<"{", "text-Hel", "}">>, <<"{", "stream-end", "}">>}

SlotWorld ==
    [lines |-> SlotLines, maxTexts |-> MaxTexts,
     responses |-> {OkResponse, RateLimited}, outcomes |-> HandlerOutcomes]

NextSlot ==
    \/ GenerateResponse /\ UNCHANGED storeVars
    \/ StopStream /\ UNCHANGED storeVars
    \/ \E g \in 1..Len(gens) : Progress(g, SlotWorld) /\ UNCHANGED storeVars

SpecSlot == Init /\ [][NextSlot]_vars

(***************************************************************************)
(* SpecStore: AiChatStore over its CohereService, with a user who sends    *)
(* messages, stops and clears the chat at any moment.                      *)
(***************************************************************************)
StoreLines == {<<"{", "text-Hel", "}">>, <<"{", "stream-end", "}">>}

StoreWorld ==
    [lines |-> StoreLines, maxTexts |-> MaxTexts,
     responses |-> {OkResponse, RateLimited, Unavailable}, outcomes |-> HandlerOutcomes]

NextStore ==
    \/ \E text \in Typed : ProcessMessage(text)
    \/ StopRequest
    \/ ClearChat
    \/ Initialize
    \/ \E g \in 1..Len(gens) : Progress(g, StoreWorld) /\ Delivered(g)

SpecStore == Init /\ [][NextStore]_vars

(***************************************************************************)
(* SpecStale: a user who sends messages and stops them, over a service     *)
(* whose responses ask for a tool, so that a generation the user stopped   *)
(* may still issue a follow-up request and stream its answer.              *)
(***************************************************************************)
StaleLines == {<<"{", "text-Hel", "}">>, <<"{", "start-0", "}">>, <<"{", "message-end", "}">>}

StaleWorld ==
    [lines |-> StaleLines, maxTexts |-> MaxTexts,
     responses |-> {OkResponse}, outcomes |-> {"value"}]

NextStale ==
    \/ \E text \in Typed : ProcessMessage(text)
    \/ StopRequest
    \/ \E g \in 1..Len(gens) : Progress(g, StaleWorld) /\ Delivered(g)

SpecStale == Init /\ [][NextStale]_vars

(***************************************************************************)
(* Claims about the generations of one service                             *)
(***************************************************************************)
\* A generation with a request in flight or a response stream being read.
Active(gen) == gen.pc \in {"fetch", "text", "read"} /\ ~Aborted(gen)

\* C1: at no time do two generations of one service both have a request in
\* flight or a response stream being read.
C1_SingleFlight == Cardinality({g \in 1..Len(gens) : Active(gens[g])}) <= 1

\* C2: the output channel of a generation that the caller cancelled before it
\* had ended is never given an error.
C2_CancelledNeverErrors ==
    \A g \in cancelled : \A n \in 1..Len(gens[g].subject) : gens[g].subject[n] # "error"

\* Generation g ends with this step, its channel given `signal` and nothing
\* else, and no request is issued.
EndsWith(g, signal) ==
    /\ gens'[g].pc = "done"
    /\ gens'[g].subject = Append(gens[g].subject, signal)
    /\ requests' = requests

\* Generation g issues the follow-up request of a tool dispatch with this step.
IssuesFollowUp(g) == gens[g].pc \in {"read", "tools"} /\ gens'[g].pc = "fetch"

\* A generation that has ended does nothing more.
EndedForGood(g) == gens[g].pc = "done" => gens'[g] = gens[g]

\* A response without body ends the generation with an error.
NoBodyFails(g) ==
    FetchResolves(g, NoBodyResponse) => EndsWith(g, "error") /\ gens'[g].error = NoBodyError

\* C13 as stated: a request that has received a non-2xx status ends the
\* generation with an error carrying the status and the body text, and so does
\* a response without body, with an error; no text is delivered and no
\* request is issued with or after that.
C13_NonOkAlwaysFails ==
    [][\A g \in 1..Len(gens) :
          /\ NoBodyFails(g)
          /\ (gens[g].pc = "text" /\ gens'[g] # gens[g]) =>
                  /\ EndsWith(g, "error")
                  /\ gens'[g].error = ApiError(gens[g].response)
          /\ EndedForGood(g)]_vars

\* C13 as amended: a request that has received a non-2xx status ends the
\* generation with an error, which carries the status and the body text when
\* the body text could be read, unless the signal of the request is aborted
\* while the body text is awaited: then the generation ends with a completion.
\* A response without body ends it with an error.  No text is delivered and
\* no request is issued with or after that.
C13_NonOkFailsUnlessAborted ==
    [][\A g \in 1..Len(gens) :
          /\ NoBodyFails(g)
          /\ (gens[g].pc = "text" /\ gens'[g] # gens[g]) =>
                  IF Aborted(gens[g]) THEN EndsWith(g, "complete")
                  ELSE /\ EndsWith(g, "error")
                       /\ gens'[g].error \in {ApiError(gens[g].response), NetworkError}
          /\ EndedForGood(g)]_vars

\* C13 witness: the follow-up request of a generation that had delivered a
\* text was answered 429, and the channel was given the error with the status
\* and the body text.
C13_Witness ==
    \E g \in 1..Len(gens) :
        /\ gens[g].pc = "done"
        /\ gens[g].subject = <<"Hel", "error">>
        /\ gens[g].error = ApiError(RateLimited)
        /\ gens[g].error.message = <<"Cohere API Error ", "429", ": ", "rate limited">>

IsSignal(e) == e \in {"complete", "error"}

\* C14: the channel of a generation is given at most one terminal signal
\* (complete or error), whatever the nesting of requests, streams and tool
\* dispatches and whatever the cancellations, and nothing after it.
C14_OneTerminal ==
    \A g \in 1..Len(gens) : \A n \in 1..Len(gens[g].subject) :
        IsSignal(gens[g].subject[n]) => n = Len(gens[g].subject)

\* C17: when the readStream frames of a generation have returned or thrown,
\* whatever ended them, no body reader is left locked; while a stream is read
\* or a tool dispatch awaited, its reader is locked.
C17_ReaderReleased ==
    \A g \in 1..Len(gens) :
        /\ gens[g].pc = "done" => gens[g].locks = 0
        /\ gens[g].pc \in {"read", "tools"} => gens[g].locks >= 1

\* C17 witness: a generation cancelled in the middle of a read, after a text,
\* has ended with its reader released.
C17_Witness ==
    \E g \in cancelled :
        /\ gens[g].closing = "abort"
        /\ gens[g].subject = <<"Hel", "complete">>
        /\ gens[g].locks = 0

\* C14 witness: a generation that was cancelled during its tool dispatch went
\* on to a follow-up request, which failed: its channel has one error.
C14_Witness ==
    \E g \in cancelled :
        /\ gens[g].pc = "done"
        /\ gens[g].closing = "error"
        /\ gens[g].subject = <<"Hel", "error">>

\* The texts a subject was given, in order.
Texts(given) == SelectSeq(given, LAMBDA e : ~IsSignal(e))

TextOrStreamEnd ==
    {line \in TurnLines :
        EventOf(line).type \in {"content-delta", "text-generation", "stream-end"}}

\* What a subject is given with a text event or a stream-end.
Delivery(line) ==
    TextOf(EventOf(line)) \o
        (IF EventOf(line).type = "stream-end" THEN <<"complete">> ELSE << >>)

\* C11, the texts: at every moment the texts a generation's channel has been
\* given are the texts its responses carried so far, in the order the model
\* produced them, over all the turns of the generation.
C11_TextsInOrder ==
    \A g \in 1..Len(gens) : Texts(gens[g].subject) = gens[g].produced

\* C11, the steps: reading a text event gives the channel that text and
\* nothing else, reading stream-end gives it one completion; neither invokes a
\* handler or issues a request; and while a tool dispatch is under way, up to
\* the issue of the follow-up request, the channel is given nothing.
C11_TextSteps ==
    \A g \in 1..Len(gens) :
        /\ \A line \in TextOrStreamEnd :
              ReadLine(g, line) =>
                  /\ gens'[g].subject = gens[g].subject \o Delivery(line)
                  /\ requests' = requests
                  /\ invoked' = invoked
        /\ gens[g].pc = "tools" => gens'[g].subject = gens[g].subject

\* C11: texts t1..tn followed by stream-end are delivered as t1..tn and one
\* completion with no handler invoked and no second request, and over several
\* turns the texts arrive in the order produced, none of them during a tool
\* dispatch.
C11_TextDelivery == []C11_TextsInOrder /\ [][C11_TextSteps]_vars

\* C11 witness: a response of two texts and stream-end has been delivered as
\* the two texts and a completion, by the only request of the generation.
C11_Witness ==
    \E g \in 1..Len(gens) :
        /\ gens[g].closing = "stream-end"
        /\ gens[g].produced = <<"Hel", "lo">>
        /\ gens[g].subject = <<"Hel", "lo", "complete">>
        /\ requests = 1
        /\ \A k \in DOMAIN invoked : invoked[k] = 0

\* C20: reading a stream-end completes the channel and ends the generation,
\* invoking no handler and issuing no request, whatever the accumulator holds.
C20_StreamEndCompletes ==
    [][\A g \in 1..Len(gens) :
          ReadLine(g, <<"{", "stream-end", "}">>) =>
              /\ EndsWith(g, "complete")
              /\ invoked' = invoked
              /\ toolCache' = toolCache]_vars

\* C20 witness: a stream-end that found a tool call in the accumulator has
\* completed the channel; no handler was ever invoked and the generation made
\* its one request.
C20_Witness ==
    \E g \in 1..Len(gens) :
        /\ gens[g].closing = "stream-end"
        /\ gens[g].dropped >= 1
        /\ gens[g].subject = <<"complete">>
        /\ requests = 1
        /\ \A k \in DOMAIN invoked : invoked[k] = 0

\* C22: once a message-end or stream-end of a response has been dispatched,
\* that response's stream is not read again: no read returns a line or
\* end-of-data, the channel is given no text and the accumulator of the
\* response is not updated.
C22_NothingAfterEnd ==
    [][\A g \in 1..Len(gens) :
          gens[g].sawEnd =>
              /\ \A line \in HandlerLines : ~ReadLine(g, line)
              /\ ~ReadEnds(g)
              /\ Texts(gens'[g].subject) = Texts(gens[g].subject)
              /\ gens'[g].sawEnd =>
                    gens'[g].reader.toolCallsMap = gens[g].reader.toolCallsMap]_vars

\* C23: while the follow-up request of a tool dispatch is in flight or its
\* response is being streamed, no earlier response body of the generation is
\* still open: the only reader the generation holds is the one of the
\* response being read.
C23_ClosedBeforeFollowUp ==
    \A g \in 1..Len(gens) :
        (gens[g].toolCalls # << >> /\ gens[g].pc \in {"fetch", "text", "read"}) =>
            gens[g].locks = (IF gens[g].pc = "read" THEN 1 ELSE 0)

\* The tool calls of an accumulator or of a batch, as pairs of index and id.
Pairs(calls) == {<<calls[n].index, calls[n].id>> : n \in 1..Len(calls)}

\* C24, the accumulator: from the issue of a request to the end of its
\* response, the accumulator holds the tool calls that this response has
\* started, and so none when the request is issued.
C24_AccumulatorOfResponse ==
    \A g \in 1..Len(gens) :
        gens[g].pc \in {"fetch", "text", "read"} =>
            Pairs(gens[g].reader.toolCallsMap) = gens[g].started

\* C24, the dispatch: a message-end of a response that started no tool call
\* completes the channel with no handler invoked and no request; otherwise the
\* batch dispatched is the tool calls this response started, whatever earlier
\* responses of the generation started.
C24_DispatchOfResponse ==
    \A g \in 1..Len(gens) :
        ReadLine(g, <<"{", "message-end", "}">>) =>
            IF gens[g].started = {}
            THEN EndsWith(g, "complete") /\ invoked' = invoked
            ELSE /\ Pairs(gens'[g].toolCalls) = gens[g].started
                 /\ {gens'[g].calls[i].id : i \in 1..Len(gens'[g].calls)} =
                        {p[2] : p \in gens[g].started}

\* C24: each request/response cycle starts with an empty accumulator, the
\* tool calls dispatched at a message-end are those started in that response,
\* and a call started in one turn is not dispatched again in a later turn.
C24_FreshAccumulator == []C24_AccumulatorOfResponse /\ [][C24_DispatchOfResponse]_vars

\* C24 witness: the first response started call id1, which was dispatched;
\* the second response started call id2 only, and the batch dispatched at its
\* message-end was id2 alone.
C24_Witness ==
    \E g \in 1..Len(gens) :
        /\ gens[g].pc = "fetch"
        /\ Len(gens[g].messages) = 6
        /\ Len(gens[g].messages[3].tool_calls) = 1
        /\ gens[g].messages[3].tool_calls[1].id = "id1"
        /\ Pairs(gens[g].toolCalls) = {<<1, "id2">>}

\* A generation with a request issued and not yet over.
InFlight(gen) == gen.pc \in {"fetch", "text", "read", "tools"}

\* C27: every request of a generation carries the model name of the config
\* and its transformed tool list; the request whose messages are those the
\* caller gave carries the documents of the config, and every request built
\* after a tool dispatch has no documents field.
C27_DocumentsOnlyFirst ==
    \A g \in 1..Len(gens) :
        InFlight(gens[g]) =>
            /\ gens[g].body.model = Config.modelName
            /\ gens[g].body.tools = transformTools(Config.tools)
            /\ gens[g].body.documents =
                  (IF gens[g].messages = InitialMessages THEN <<Config.documents>> ELSE << >>)

\* C27 witness: the second follow-up request of a generation is in flight,
\* without documents, with the model name and the tools of the config.
C27_Witness ==
    \E g \in 1..Len(gens) :
        /\ gens[g].pc = "fetch"
        /\ Len(gens[g].messages) = 6
        /\ gens[g].body.documents = << >>
        /\ gens[g].body.model = "command-r-08-2024"
        /\ gens[g].body.tools.defined

\* C28, the steps: while a generation has a request in flight its message
\* history changes only when a follow-up request is issued, and then the
\* history of the request before is a strict prefix of the new one.
C28_HistorySteps ==
    \A g \in 1..Len(gens) :
        (InFlight(gens[g]) /\ InFlight(gens'[g])) =>
            /\ IsPrefix(gens[g].messages, gens'[g].messages)
            /\ IssuesFollowUp(g) <=> Len(gens'[g].messages) > Len(gens[g].messages)

\* C28, the caller's array: as long as the generation runs it is as the
\* caller passed it, and every history of the generation begins with it.
C28_GivenUntouched ==
    \A g \in 1..Len(gens) :
        /\ ~Ended(gens[g]) => gens[g].given = InitialMessages
        /\ InFlight(gens[g]) => IsPrefix(gens[g].given, gens[g].messages)

\* C28: over the requests of a generation the history only grows by
\* appending, each being a strict prefix of the next, and the array the caller
\* passed is never modified.
C28_AppendOnly == []C28_GivenUntouched /\ [][C28_HistorySteps]_vars

\* C28 witness: the third request of a generation is in flight; its history is
\* the caller's two messages, then an assistant message and a tool result for
\* each of the two dispatches.
C28_Witness ==
    \E g \in 1..Len(gens) :
        /\ gens[g].pc = "fetch"
        /\ [n \in 1..Len(gens[g].messages) |-> gens[g].messages[n].role] =
              <<"system", "user", "assistant", "tool", "assistant", "tool">>
        /\ gens[g].given = InitialMessages

\* The calls of a batch whose handler has been invoked and has not settled.
Unsettled(calls) == {i \in 1..Len(calls) : calls[i].state = "running"}

\* The calls of a batch whose handler has settled.
Settled(calls) == {i \in 1..Len(calls) : calls[i].state \in {"returned", "threw"}}

\* C29, the states: a follow-up request is in flight or being answered only
\* when no handler of its batch is left running, and a dispatch is awaited
\* only while one is.
C29_NoRequestWhileRunning ==
    \A g \in 1..Len(gens) :
        /\ gens[g].pc \in {"fetch", "text", "read"} => Unsettled(gens[g].calls) = {}
        /\ gens[g].pc = "tools" => Unsettled(gens[g].calls) # {}

\* C29, the steps: the step that dispatches a batch invokes the handler of
\* every call that needs one before any of them has settled; a step that
\* leaves a handler of the batch running issues no request; and the step that
\* issues the follow-up request leaves none running.
C29_DispatchSteps ==
    \A g \in 1..Len(gens) :
        /\ (gens[g].pc = "read" /\ gens'[g].calls # gens[g].calls /\ gens'[g].pc # "done") =>
              /\ Settled(gens'[g].calls) = {}
              /\ \A k \in DOMAIN invoked :
                    invoked'[k] = invoked[k] +
                        Cardinality({i \in Unsettled(gens'[g].calls) :
                                        gens'[g].calls[i].cacheKey = k})
        /\ Unsettled(gens'[g].calls) # {} => requests' = requests
        /\ IssuesFollowUp(g) =>
              /\ Unsettled(gens'[g].calls) = {}
              /\ requests' = requests + 1

\* C29: the follow-up request of a dispatch is issued only after every handler
\* started for the batch has settled, and all the handlers of the batch are
\* started before any of them settles.
C29_FanOutFanIn == []C29_NoRequestWhileRunning /\ [][C29_DispatchSteps]_vars

\* C29 witness: of a batch of two calls whose handlers were both invoked, one
\* handler has returned and the other is still running; no follow-up request
\* has been issued.
C29_Witness ==
    \E g \in 1..Len(gens) :
        /\ gens[g].pc = "tools"
        /\ Len(gens[g].calls) = 2
        /\ gens[g].calls[1].state = "returned"
        /\ gens[g].calls[2].state = "running"
        /\ invoked[gens[g].calls[2].cacheKey] >= 1
        /\ requests = 1

\* C30, the cache: every key in the cache is one for which a handler
\* invocation returned normally, and every cached value is a list, never an
\* error.
C30_CacheOfReturns ==
    /\ DOMAIN toolCache \subseteq returnedKeys
    /\ \A k \in DOMAIN toolCache :
          /\ ~toolCache[k].isError
          /\ toolCache[k].items \in Seq({"r", "r1", "r2"})
          /\ Len(toolCache[k].items) >= 1

\* C30, the steps: a handler that throws, and the dispatch of a batch (where
\* an unregistered name and a tool without handler are met), leave the cache
\* as it was; a handler that returns a value that is not a list has a list of
\* that one value cached under the key of its call.
C30_CacheSteps ==
    \A g \in 1..Len(gens) :
        /\ \A i \in 1..Len(gens[g].calls) :
              /\ HandlerSettles(g, i, "throws") => toolCache' = toolCache
              /\ HandlerSettles(g, i, "value") =>
                    /\ gens[g].calls[i].cacheKey \in DOMAIN toolCache'
                    /\ Len(toolCache'[gens[g].calls[i].cacheKey].items) = 1
        /\ gens[g].pc = "read" => toolCache' = toolCache

\* C30, the later call: a call whose key was in a batch that had ended
\* without a handler having returned for it is not answered from the cache:
\* its handler is invoked again, or, if it has none, it fails again.
C30_ExecutedAgain ==
    \A r \in replayed :
        ~r.returned => IF r.hasHandler THEN r.invokedAgain ELSE r.isError

\* C30: the cache only ever holds lists that handler invocations returned;
\* an unregistered name, a tool without handler and a handler that throws add
\* nothing to it, so that a later identical call is executed again.
C30_CacheOnlyReturns ==
    [](C30_CacheOfReturns /\ C30_ExecutedAgain) /\ [][C30_CacheSteps]_vars

\* C30 witness: the handler threw for a call of the first batch and nothing
\* was cached; the second batch asked for the same call and the handler was
\* invoked a second time.
C30_Witness ==
    /\ toolCache = << >>
    /\ \E r \in replayed : ~r.returned /\ r.hasHandler /\ r.invokedAgain
    /\ \E k \in DOMAIN invoked : invoked[k] = 2
    /\ \E g \in 1..Len(gens) : gens[g].pc = "tools" /\ Len(gens[g].messages) = 4

\* The content of a tool result that reports this message as its error.
ErrorContent(message) == <<"{", "\"error\"", ":">> \o message \o <<"}">>

\* C31: the tool result of a call whose name is no registered tool has as
\* content the serialisation of an object whose error is exactly
\* Tool handler for "<name>" not found, and the tool result of a call whose
\* handler threw an error with message boom has boom as its error.
C31_ErrorIsMessage ==
    \A g \in 1..Len(gens) : \A i \in 1..Len(gens[g].calls) :
        LET call == gens[g].calls[i]
            sent == wrapToolResult(call.id, call.result).content
        IN  /\ (call.state = "failed" /\ call.name \notin RegisteredTools) =>
                  sent = ErrorContent(<<"Tool handler for \"", call.name, "\" not found">>)
            /\ call.state = "threw" => sent = ErrorContent(<<"boom">>)

\* The errors of the transport: a fetch or a read that failed, a response
\* without a body, a status outside 200..299.
TransportErrors == {NetworkError, NoBodyError} \cup {ApiError(r) : r \in {RateLimited, Unavailable}}

\* The step gives generation g's channel an error signal.
GivesError(g) ==
    /\ Len(gens') = Len(gens)
    /\ Len(gens'[g].subject) > Len(gens[g].subject)
    /\ \E n \in (Len(gens[g].subject) + 1)..Len(gens'[g].subject) : gens'[g].subject[n] = "error"

\* C32, the steps: an error signal is given to a channel only by a fetch
\* that rejects or resolves without a body, by the body text of a non-2xx
\* response being read or failing to be read, or by a read of the stream
\* that rejects, the signal of the request not being aborted; the error is
\* one of the transport.  Decoding a line, whatever the line, and a handler
\* settling, whatever the outcome, give no error signal.
C32_ErrorSteps ==
    \A g \in 1..Len(gens) :
        /\ GivesError(g) =>
              /\ ~Aborted(gens[g])
              /\ \/ FetchRejects(g)
                 \/ FetchResolves(g, NoBodyResponse)
                 \/ ErrorTextSettles(g)
                 \/ ErrorTextRejects(g)
                 \/ ReadRejects(g)
              /\ gens'[g].error \in TransportErrors
        /\ \A line \in ContainLines : ReadLine(g, line) => ~GivesError(g)
        /\ \A i \in 1..Len(gens[g].calls) : \A outcome \in ContainWorld.outcomes :
              HandlerSettles(g, i, outcome) => ~GivesError(g)

\* C32, the channels: a channel that ended with an error signal carries an
\* error of the transport.
C32_ErrorOfTransport ==
    \A g \in 1..Len(gens) :
        (gens[g].subject # << >> /\ gens[g].subject[Len(gens[g].subject)] = "error") =>
            gens[g].error \in TransportErrors

\* C32: parse-level and tool-level failures never reach the channel as an
\* error signal; only a request failing at transport level does.
C32_OnlyTransportErrors == []C32_ErrorOfTransport /\ [][C32_ErrorSteps]_vars

\* C32 witness: the handler of a tool call threw, the follow-up request was
\* issued all the same, and the channel ended with an error signal only when
\* that request failed on the network.
C32_Witness ==
    \E g \in 1..Len(gens) :
        /\ gens[g].pc = "done"
        /\ gens[g].subject = <<"error">>
        /\ gens[g].error = NetworkError
        /\ requests = 2
        /\ toolCache = << >>
        /\ \E k \in DOMAIN invoked : invoked[k] = 1

\* The channel of the generation was given a terminal signal.
Terminated(gen) ==
    gen.subject # << >> /\ gen.subject[Len(gen.subject)] \in {"complete", "error"}

\* C33, the rounds: a message-end read while the accumulator holds tool calls
\* gives no terminal signal and leaves the generation waiting for its
\* handlers or for the next response, however many requests it has issued.
C33_RoundsGoOn ==
    \A g \in 1..Len(gens) :
        (ReadLine(g, <<"{", "message-end", "}">>) /\ gens[g].reader.toolCallsMap # << >>) =>
            /\ ~Terminated(gens'[g])
            /\ gens'[g].pc \in {"tools", "fetch"}
            /\ requests' + (IF gens'[g].pc = "tools" THEN 1 ELSE 0) = requests + 1

\* C33: when every fetch and every handler settles and every response stream
\* ends, a generation that was started is eventually given a terminal signal;
\* a turn that ends with tool calls never ends the generation, it only starts
\* another round.
C33_Terminates ==
    /\ (Len(gens) >= 1) ~> (Len(gens) >= 1 /\ Terminated(gens[1]))
    /\ [][C33_RoundsGoOn]_vars

\* C33 witness: the generation has gone through as many rounds of tool calls
\* as the model lets it issue requests, and is still running.
C33_Witness ==
    /\ requests = MaxRequests
    /\ Len(gens) = 1
    /\ gens[1].pc = "read"
    /\ Len(gens[1].messages) = 2 + 2 * (MaxRequests - 1)
    /\ ~Terminated(gens[1])

\* C34, the slot: the slot is empty or holds the controller that the most
\* recent generateResponse created, which has not been aborted.
C34_SlotHoldsLatest ==
    /\ abortController \in {0, Len(gens)}
    /\ abortController # 0 =>
          /\ gens[abortController].controller = abortController
          /\ abortController \notin aborted

\* C34, the steps: stopStream on an empty slot changes nothing; on a slot
\* that holds a controller it aborts that controller, empties the slot and
\* does nothing else, so that a second call finds the slot empty;
\* generateResponse aborts the controller in the slot, if any, and leaves in
\* the slot the controller it created for its generation; nothing else
\* touches the slot or aborts a controller.
C34_SlotSteps ==
    /\ (StopStream /\ abortController = 0) => UNCHANGED vars
    /\ (StopStream /\ abortController # 0) =>
          /\ aborted' = aborted \cup {abortController}
          /\ abortController' = 0
          /\ UNCHANGED <<gens, toolCache, requests>>
    /\ GenerateResponse =>
          /\ Len(gens') = Len(gens) + 1
          /\ abortController' = Len(gens')
          /\ gens'[Len(gens')].controller = abortController'
          /\ aborted' = aborted \cup (IF abortController = 0 THEN {} ELSE {abortController})
          /\ abortController' \notin aborted'
    /\ (Len(gens') = Len(gens) /\ gens' # gens) =>
          UNCHANGED <<abortController, aborted>>

\* C34: stopStream is a no-op on an empty slot and otherwise aborts and
\* empties it, so two calls in a row do what one does; after generateResponse
\* the slot holds the controller of the most recent generation.
C34_StopIdempotent == []C34_SlotHoldsLatest /\ [][C34_SlotSteps]_vars

\* C34 witness: a second generateResponse aborted the controller of the first
\* generation and stopStream the controller of the second; the slot is empty.
C34_Witness ==
    /\ Len(gens) = 2
    /\ aborted = {1, 2}
    /\ abortController = 0

\* C36: once the caller has cancelled a generation (stopStream, or a
\* generateResponse that supersedes it), no step of that generation issues
\* an HTTP request or invokes a tool handler, also when it was waiting for
\* its handlers at the moment of the cancellation.
C36_CancelledIssuesNothing ==
    [][\A g \in 1..Len(gens) :
          (g \in cancelled /\ Len(gens') = Len(gens) /\ gens'[g] # gens[g]) =>
              /\ requests' = requests
              /\ invoked' = invoked]_vars

\* The tool results that come right after message k of a history.
ResultsAfter(m, k) ==
    {j \in (k + 1)..Len(m) : \A i \in (k + 1)..j : m[i].role = "tool"}

\* C37: in the history of every follow-up request, the tool results that
\* follow an assistant message answer exactly the tool calls that message
\* lists: the ids are the same set, whatever tool_calls the message-end
\* carried (none, an empty list, a list of other calls).
C37_ResultsAnswerListedCalls ==
    \A g \in 1..Len(gens) :
        LET m == gens[g].messages
        IN  \A k \in 1..Len(m) :
                m[k].role = "assistant" =>
                    {m[j].tool_call_id : j \in ResultsAfter(m, k)} =
                    {m[k].tool_calls[i].id : i \in 1..Len(m[k].tool_calls)}

(***************************************************************************)
(* Claims about AiChatStore                                                *)
(***************************************************************************)
\* The messages on display with this id.
WithId(id) == {i \in 1..Len(chat) : chat[i].id = id}

Last(seq) == seq[Len(seq)]

\* C18: when the channel of the generation the store is subscribed to has
\* delivered an error, whatever the error, the assistant message of that
\* generation ends with the error marker and is no longer typing, and
\* isProcessing is false.
C18_ErrorEndsTurn ==
    LET g == msgSubscription.gen
    IN  (g # 0 /\ gens[g].pc = "done" /\ Last(gens[g].subject) = "error") =>
            /\ ~isProcessing
            /\ \A i \in WithId(msgSubscription.id) :
                  /\ chat[i].content # << >>
                  /\ Last(chat[i].content) = ErrorMarker
                  /\ ~chat[i].isTyping

\* The store is subscribed to generation g, which has not ended.
InProgress(g) ==
    /\ g # 0
    /\ msgSubscription.gen = g
    /\ isProcessing
    /\ gens[g].pc # "done"

\* C19, the step of stopRequest: the in-progress assistant message, which is
\* the last one, gets the marker once and stops typing, nothing else on
\* display changes, isProcessing becomes false, the controller of the
\* generation is aborted and the store is no longer subscribed.
C19_StopStep ==
    \A g \in 1..Len(gens) :
        (StopRequest /\ InProgress(g)) =>
            /\ Last(chat).id = msgSubscription.id
            /\ chat' = [chat EXCEPT ![Len(chat)] =
                          [@ EXCEPT !.content = Append(@, StoppedMarker), !.isTyping = FALSE]]
            /\ Count(StoppedMarker, Last(chat').content) = 1
            /\ ~isProcessing'
            /\ gens[g].controller \in aborted'
            /\ abortController' = 0
            /\ msgSubscription' = NoSubscription

\* C19, afterwards: what a generation the store is not subscribed to does
\* changes nothing in the store, and a message that is not blank, sent while
\* isProcessing is false, starts a generation.
C19_AfterStop ==
    /\ \A g \in 1..Len(gens) :
          (Len(gens') = Len(gens) /\ gens'[g] # gens[g] /\ msgSubscription.gen # g) =>
              UNCHANGED storeVars
    /\ (ProcessMessage("hi") /\ ~isProcessing) =>
          /\ Len(gens') = Len(gens) + 1
          /\ Last(gens').pc = "fetch"
          /\ isProcessing'
          /\ msgSubscription'.gen = Len(gens')

\* C19: stopRequest during a generation marks the in-progress assistant
\* message as stopped, exactly once, ends typing and processing and aborts the
\* stream; the next message that is not blank is accepted and starts a
\* generation.
C19_StopEndsTurn == [][C19_StopStep /\ C19_AfterStop]_vars

\* C19 witness: a generation was stopped after its first text, its message
\* carries the text and the marker, and the next message has started a second
\* generation.
C19_Witness ==
    /\ Len(gens) = 2
    /\ 1 \in cancelled
    /\ Len(chat) = 4
    /\ chat[2].content = <<"Hel", StoppedMarker>>
    /\ ~chat[2].isTyping
    /\ isProcessing
    /\ msgSubscription.gen = 2
    /\ gens[2].pc = "fetch"

\* The turn of the history that stands for a message on display.
TurnOf(message) ==
    [role |-> message.type, tool_call_id |-> "", tool_calls |-> << >>,
     content |-> message.content]

\* C35, the step of processMessage: with blank content, or while
\* isProcessing is true, nothing changes and no request is issued; otherwise
\* isProcessing becomes true, the messages on display grow by the user
\* message and then a typing assistant message without content, and one
\* request is issued whose history is a system turn, a turn for each earlier
\* message in the order on display, and the new user turn.
C35_ProcessMessageStep ==
    \A text \in Typed :
        ProcessMessage(text) =>
            IF text = " " \/ isProcessing
            THEN UNCHANGED vars
            ELSE /\ isProcessing'
                 /\ Len(chat') = Len(chat) + 2
                 /\ SubSeq(chat', 1, Len(chat)) = chat
                 /\ chat'[Len(chat) + 1].type = "user"
                 /\ chat'[Len(chat) + 1].content = <<text>>
                 /\ chat'[Len(chat) + 2].type = "assistant"
                 /\ chat'[Len(chat) + 2].content = << >>
                 /\ chat'[Len(chat) + 2].isTyping
                 /\ requests' = requests + 1
                 /\ Len(gens') = Len(gens) + 1
                 /\ LET sent == gens'[Len(gens')].messages
                    IN  /\ gens'[Len(gens')].pc = "fetch"
                        /\ Len(sent) = Len(chat) + 2
                        /\ sent[1].role = "system"
                        /\ \A n \in 1..Len(chat) : sent[n + 1] = TurnOf(chat[n])
                        /\ sent[Len(sent)].role = "user"
                        /\ sent[Len(sent)].content = <<text>>

\* C35: processMessage does nothing while isProcessing is true or when the
\* content is blank, and otherwise starts a turn: isProcessing, the two new
\* messages, and a request with the history in the stored order.
C35_ProcessMessage == [][C35_ProcessMessageStep]_vars

\* C35 witness: the second message was accepted after the first turn had
\* ended: its request carries the system turn, the first user turn, the
\* answer of the assistant and the new user turn.
C35_Witness ==
    /\ Len(gens) = 2
    /\ gens[2].pc = "fetch"
    /\ isProcessing
    /\ Len(chat) = 4
    /\ [n \in 1..Len(gens[2].messages) |-> gens[2].messages[n].role] =
          <<"system", "user", "assistant", "user">>
    /\ gens[2].messages[3].content = <<"Hel">>

\* C38, the subscriptions: the store never leaves behind the subscription of
\* a generation that still runs, and the subscription it holds is that of the
\* generation started last.
C38_NoneLeftBehind ==
    /\ msgSubscription.others = {}
    /\ msgSubscription.gen \in {0, Len(gens)}

\* C38, the steps: whatever a generation does after the caller cancelled it,
\* or once a later generation was started, changes nothing in the store.
C38_StaleSteps ==
    \A g \in 1..Len(gens) :
        (/\ Len(gens') = Len(gens)
         /\ gens'[g] # gens[g]
         /\ g \in cancelled \/ g # Len(gens)) =>
            UNCHANGED <<chat, isProcessing>>

\* C38: after stopRequest no chunk, completion or error of the cancelled
\* generation changes the store, even when a new processMessage has started:
\* only the generation started last can change it.
C38_OnlyLatestChangesStore == []C38_NoneLeftBehind /\ [][C38_StaleSteps]_vars

\* C38 witness: the first generation was stopped while its tool handler ran
\* and a second message was sent; the handler then returned, the first
\* generation issued its follow-up request and was given a text, which is not
\* on display: its message holds only the marker, and the second turn is
\* still in progress.
C38_Witness ==
    /\ Len(gens) = 2
    /\ Len(chat) = 4
    /\ 1 \in cancelled
    /\ gens[1].subject = <<"Hel">>
    /\ chat[2].content = <<StoppedMarker>>
    /\ isProcessing
    /\ chat[4].isTyping
    /\ chat[4].content = << >>

\* The contents of the messages on display, in order.
Contents(messages) == [n \in 1..Len(messages) |-> messages[n].content]

\* C39: stopRequest called while isProcessing is false, which is also how a
\* second call right after a first one finds the store, changes the content
\* of no message.
C39_StopChangesNoContent ==
    [][(StopRequest /\ ~isProcessing) => Contents(chat') = Contents(chat)]_vars

\* C40: after every operation of the store and every callback of the
\* channel, when isProcessing is false no message is typing, and when it is
\* true the last message is the assistant's and is the one message typing.
C40_TypingIffProcessing ==
    /\ ~isProcessing => \A n \in 1..Len(chat) : ~chat[n].isTyping
    /\ isProcessing =>
          /\ chat # << >>
          /\ chat[Len(chat)].type = "assistant"
          /\ chat[Len(chat)].isTyping
          /\ \A n \in 1..(Len(chat) - 1) : ~chat[n].isTyping

\* C40 witness: the first turn has completed and its answer no longer types;
\* the second turn is in progress, its assistant message typing.
C40_Witness ==
    /\ Len(gens) = 2
    /\ gens[1].subject = <<"Hel", "complete">>
    /\ isProcessing
    /\ Len(chat) = 4
    /\ chat[2].content = <<"Hel">>
    /\ ~chat[2].isTyping
    /\ chat[4].isTyping

(***************************************************************************)
(* Claims about the tool executor                                          *)
(***************************************************************************)
\* The follow-up request of a tool dispatch has been issued and the next
\* dispatch has not begun.
AfterDispatch(gen) == gen.toolCalls # << >> /\ gen.pc \in {"fetch", "text", "read"}

\* C3 as stated: a call whose cache key was in a batch that had ended is
\* answered without invoking a handler, whatever the handler did the first
\* time.
C3_SecondInvocationNeverInvokes == \A r \in replayed : ~r.invokedAgain

\* C3 as amended: a call whose cache key was in a batch that had ended is
\* answered from the cache, with a list and without invoking the handler, when
\* a handler invocation for that key had returned normally; when the handler
\* had only thrown, nothing was cached and the handler is invoked again.
C3_SecondInvocationCached ==
    \A r \in replayed :
        /\ r.returned => ~r.invokedAgain /\ ~r.isError
        /\ (~r.returned /\ r.hasHandler) => r.invokedAgain

\* C3 witness: a second invocation in sequence has been answered from the
\* cache, with the list the handler returned the first time.
C3_Witness ==
    \E g \in 1..Len(gens) :
        /\ AfterDispatch(gens[g])
        /\ \E r \in replayed : r.returned /\ ~r.invokedAgain
        /\ \E i \in 1..Len(gens[g].calls) :
              /\ gens[g].calls[i].state = "cached"
              /\ gens[g].calls[i].result = ListResult(<<"r1", "r2">>)

\* C4: no handler is invoked more than once for one cache key.
C4_AtMostOncePerKey == \A k \in DOMAIN invoked : invoked[k] <= 1

C12_FollowUpOf(g) ==
    /\ (ReadLine(g, <<"{", "message-end", "}">>) /\ gens[g].reader.toolCallsMap # << >>) =>
            /\ gens'[g].pc \in {"tools", "fetch"}
            /\ gens'[g].toolCalls = gens[g].reader.toolCallsMap
    /\ (gens[g].pc = "tools" /\ ~IssuesFollowUp(g)) => requests' = requests
    /\ IssuesFollowUp(g) =>
          LET n == Len(gens'[g].toolCalls)
              previous == gens[g].messages
              next == gens'[g].messages
          IN  /\ n >= 1
              /\ requests' = requests + 1
              /\ Len(next) = Len(previous) + 1 + n
              /\ SubSeq(next, 1, Len(previous)) = previous
              /\ next[Len(previous) + 1].role = "assistant"
              /\ Len(next[Len(previous) + 1].tool_calls) = n
              /\ \A i \in 1..n :
                    /\ next[Len(previous) + 1].tool_calls[i].id = gens'[g].toolCalls[i].id
                    /\ next[Len(previous) + 1].tool_calls[i].name = gens'[g].toolCalls[i].name
                    /\ next[Len(previous) + 1 + i].role = "tool"
                    /\ next[Len(previous) + 1 + i].tool_call_id = gens'[g].toolCalls[i].id

FaresAlone(call) ==
    /\ call.state \in {"cached", "failed", "running", "returned", "threw"}
    /\ call.state = "failed" <=> (call.name \notin ToolsWithHandler /\ call.state # "cached")
    /\ call.state = "failed" => call.result = HandlerNotFound(call.name)
    /\ call.state = "threw" => call.result = HandlerThrew
    /\ call.state = "returned" => call.result \in {HandlerResult("value"), HandlerResult("list")}
    /\ call.state = "cached" => ~call.result.isError
    /\ call.state # "running" => (call.result.isError <=> call.state \in {"failed", "threw"})

\* C16: in a batch, a call that fails (no such tool, no handler, a handler
\* that throws) has an error result and changes nothing for the others, whose
\* handlers are invoked and whose results are their own; once no handler is
\* pending the follow-up request has been issued, with every result.
C16_FailureIsolation ==
    \A g \in 1..Len(gens) :
        /\ \A i \in 1..Len(gens[g].calls) : FaresAlone(gens[g].calls[i])
        /\ gens[g].pc = "tools" => Running(gens[g].calls) # {}
        /\ AfterDispatch(gens[g]) =>
              \A i \in 1..Len(gens[g].calls) :
                  gens[g].messages[Len(gens[g].messages) - Len(gens[g].calls) + i].content
                      = JSONstringifyResult(gens[g].calls[i].result)

\* C16 witness: in a batch of an unregistered tool and a tool whose handler
\* returned, the follow-up request carries an error for the first and the
\* handler's list for the second.
C16_Witness ==
    \E g \in 1..Len(gens) :
        /\ AfterDispatch(gens[g])
        /\ Len(gens[g].calls) = 2
        /\ gens[g].calls[1].name = "ghost"
        /\ gens[g].calls[1].result.isError
        /\ gens[g].calls[2].state = "returned"
        /\ gens[g].calls[2].result = HandlerResult("list")

(***************************************************************************)
(* Claims about readStream's decoding and its accumulator                  *)
(***************************************************************************)
\* What readStream does when the whole body arrives in a single read.
SingleRead == Feed(NewReader, content)
SingleReadSubject ==
    SingleRead.emits \o (IF SingleRead.ending = "tools" THEN << >> ELSE <<"complete">>)

\* C6: however the body is cut into reads, readStream gives the subject the
\* same texts in the same order, leaves the same accumulator and ends the same
\* way (completion, or handleToolCalls with the same tool calls) as when the
\* whole body arrives in one read.
C6_FrameSplitting ==
    /\ IsPrefix(subject, SingleReadSubject)
    /\ reader.ending # "none" =>
        /\ subject = SingleReadSubject
        /\ reader.toolCallsMap = SingleRead.toolCallsMap
        /\ reader.toolCalls = SingleRead.toolCalls
        /\ reader.currentEventType = SingleRead.currentEventType
        /\ reader.ending = (IF SingleRead.ending = "none" THEN "end-of-data"
                            ELSE SingleRead.ending)

\* C6 witness: a body with an event: line and its data: line, read in pieces of
\* which one ended inside a line, has been decoded to the end.
C6_Witness ==
    /\ cutInLine
    /\ reader.ending = "complete"
    /\ reader.currentEventType = <<"content-delta">>
    /\ subject = <<"x", "complete">>

\* The lines of a body that is bare NDJSON: every line a JSON object with its
\* own type field.
IsBare(line) ==
    /\ Len(line) = 3
    /\ line[1] = "{" /\ line[3] = "}"
    /\ line[2] \in PayloadNames
    /\ Payload(line[2]).type # ""

CompleteLines(body) == SubSeq(Split(body), 1, Len(Split(body)) - 1)

PlainBody == \A k \in 1..Len(CompleteLines(content)) : IsBare(CompleteLines(content)[k])

IsTerminal(e) == e.type \in {"message-end", "stream-end"}

\* The events readStream has been given so far, up to the first terminal one.
EventsRead ==
    LET lines == CompleteLines(SubSeq(content, 1, pos))
        events == [k \in 1..Len(lines) |-> Payload(lines[k][2])]
        ends == {k \in 1..Len(events) : IsTerminal(events[k])}
    IN  IF ends = {} THEN events
        ELSE SubSeq(events, 1, CHOOSE k \in ends : \A j \in ends : k <= j)

\* A tool-call-start that carries a tool call with its function; one without
\* is an event of the wrong shape, which C15 is about.
IsStartAt(e, i) ==
    e.type = "tool-call-start" /\ e.index = i /\ e.hasToolCalls /\ e.hasFunction
IsDeltaAt(e, i) == e.type = "tool-call-delta" /\ e.index = i

\* The argument strings of the deltas at index i among events[from..], joined.
RECURSIVE DeltasAfter(_, _, _)
DeltasAfter(events, from, i) ==
    IF from > Len(events) THEN << >>
    ELSE (IF IsDeltaAt(events[from], i) THEN events[from].arguments ELSE << >>)
         \o DeltasAfter(events, from + 1, i)

EntriesAt(calls, i) == {n \in 1..Len(calls) : calls[n].index = i}

Indices == {0, 1}

\* C7: after a tool-call-start at index i and the tool-call-delta events that
\* follow it, the accumulator holds exactly one entry for i, whose arguments are
\* the start's arguments followed by those deltas' arguments in arrival order,
\* whatever deltas arrive at other indices; message-end hands over that entry.
C7_ToolAccumulation ==
    PlainBody =>
        \A i \in Indices : \A k \in 1..Len(EventsRead) :
            (/\ IsStartAt(EventsRead[k], i)
             /\ \A j \in (k + 1)..Len(EventsRead) : ~IsStartAt(EventsRead[j], i)) =>
                LET expected == EventsRead[k].arguments \o DeltasAfter(EventsRead, k + 1, i)
                    calls == IF reader.ending = "tools" THEN reader.toolCalls
                             ELSE reader.toolCallsMap
                IN  /\ Cardinality(EntriesAt(calls, i)) = 1
                    /\ \A n \in EntriesAt(calls, i) : calls[n].arguments = expected

\* C7 witness: message-end has handed over a call whose arguments arrived as a
\* start at index 1 and a delta at index 1, with a delta at index 0 in between.
C7_Witness ==
    /\ PlainBody
    /\ reader.ending = "tools"
    /\ \E n \in 1..Len(reader.toolCalls) :
          reader.toolCalls[n].index = 1 /\ reader.toolCalls[n].arguments = <<"{", "}">>

\* C8: a tool-call-delta at an index with no earlier tool-call-start in the
\* same response creates no entry: the accumulator has no entry for that index,
\* and message-end hands over no call for it.
C8_OrphanDelta ==
    PlainBody =>
        \A i \in Indices :
            (\A k \in 1..Len(EventsRead) : ~IsStartAt(EventsRead[k], i)) =>
                /\ EntriesAt(reader.toolCallsMap, i) = {}
                /\ EntriesAt(reader.toolCalls, i) = {}

\* C8 witness: a response of deltas without a start has reached message-end,
\* which found no tool call and completed.
C8_Witness ==
    /\ PlainBody
    /\ \E k \in 1..Len(EventsRead) : IsDeltaAt(EventsRead[k], 1)
    /\ \E k \in 1..Len(EventsRead) : EventsRead[k].type = "message-end"
    /\ reader.ending = "complete"
    /\ reader.toolCallsMap = << >>

\* The lines that are not JSON, and the events of the wrong shape.
BadLines ==
    {<<"junk">>, <<"{", "text-lo">>, Bare("start-no-function"), Bare("start-no-tool_calls")}

RECURSIVE JoinLines(_)
JoinLines(lines) ==
    IF lines = << >> THEN << >> ELSE Head(lines) \o <<"\n">> \o JoinLines(Tail(lines))

\* A body without its bad lines.
WithoutBadLines(body) ==
    JoinLines(SelectSeq(CompleteLines(body), LAMBDA line : line \notin BadLines))
        \o Split(body)[Len(Split(body))]

\* What readStream does with the body without its bad lines, in one read.
CleanRead == Feed(NewReader, WithoutBadLines(content))
CleanReadSubject ==
    CleanRead.emits \o (IF CleanRead.ending = "tools" THEN << >> ELSE <<"complete">>)

\* C15: a line that is not JSON, or an event of the wrong shape, gives the
\* channel nothing and does not end the stream; the other lines are decoded
\* as if it had not been there: same texts, same accumulator, same ending.
C15_BadLinesSkipped ==
    /\ IsPrefix(subject, CleanReadSubject)
    /\ \A n \in 1..Len(subject) : subject[n] # "error"
    /\ reader.ending # "none" =>
        /\ subject = CleanReadSubject
        /\ reader.toolCallsMap = CleanRead.toolCallsMap
        /\ reader.toolCalls = CleanRead.toolCalls
        /\ reader.ending = (IF CleanRead.ending = "none" THEN "end-of-data"
                            ELSE CleanRead.ending)

\* C15 witness: after a tool-call-start without function, whose TypeError was
\* swallowed, a well-formed tool-call-start was accumulated and handed over
\* alone by message-end.
C15_Witness ==
    /\ \E k \in 1..Len(CompleteLines(content)) : \E j \in (k + 1)..Len(CompleteLines(content)) :
          /\ CompleteLines(content)[k] = Bare("start-no-function")
          /\ CompleteLines(content)[j] = Bare("start-0")
    /\ reader.ending = "tools"
    /\ Len(reader.toolCalls) = 1
    /\ reader.toolCalls[1].id = "id1"

\* What readStream does with the terminated lines of the body, in one read.
TerminatedRead == Feed(NewReader, JoinLines(CompleteLines(content)))

\* C21: when the reads reach end-of-data with no message-end or stream-end
\* decoded, the channel has the texts of the terminated lines and then one
\* completion, never an error; nothing was handed to the tool executor, so no
\* handler runs and no request follows; the accumulator is left as the
\* terminated lines filled it, and the unterminated last line is still in
\* the buffer, undecoded.
C21_EndOfDataCompletes ==
    reader.ending = "end-of-data" =>
        /\ subject = TerminatedRead.emits \o <<"complete">>
        /\ reader.toolCalls = << >>
        /\ reader.toolCallsMap = TerminatedRead.toolCallsMap
        /\ reader.buffer = Split(content)[Len(Split(content))]

\* C21 witness: end-of-data came with a tool call in the accumulator and a
\* message-end without its line feed in the buffer; the channel was given a
\* completion and nothing else.
C21_Witness ==
    /\ reader.ending = "end-of-data"
    /\ reader.toolCallsMap # << >>
    /\ reader.buffer = Bare("message-end")
    /\ subject = <<"complete">>

\* The places of the well-formed tool-call-start events at index i among the
\* events read.
StartsAt(i) == {k \in 1..Len(EventsRead) : IsStartAt(EventsRead[k], i)}

\* The last of them.
LastStartAt(i) == CHOOSE k \in StartsAt(i) : \A j \in StartsAt(i) : j <= k

\* C25: whatever was accumulated at index i before, after the last
\* tool-call-start at i the accumulator holds one entry for i, with the id,
\* the name and the initial arguments of that start followed only by the
\* deltas that came after it; and it holds as many entries as there are
\* indices started, however often each was started.
C25_StartReplaces ==
    LET calls == IF reader.ending = "tools" THEN reader.toolCalls ELSE reader.toolCallsMap
    IN  /\ Len(calls) = Cardinality({i \in Indices : StartsAt(i) # {}})
        /\ \A i \in Indices :
              StartsAt(i) # {} =>
                  LET start == EventsRead[LastStartAt(i)]
                  IN  /\ Cardinality(EntriesAt(calls, i)) = 1
                      /\ \A n \in EntriesAt(calls, i) :
                            /\ calls[n].id = start.id
                            /\ calls[n].name = start.name
                            /\ calls[n].arguments =
                                  start.arguments \o DeltasAfter(EventsRead, LastStartAt(i) + 1, i)

\* C25 witness: a call was started at index 0 and given a delta, then another
\* call was started at index 0: the accumulator holds the second call alone,
\* with its own arguments.
C25_Witness ==
    /\ Cardinality(StartsAt(0)) = 2
    /\ \E k \in 1..Len(EventsRead) :
          /\ IsDeltaAt(EventsRead[k], 0)
          /\ \E j \in StartsAt(0) : j < k
          /\ k < LastStartAt(0)
    /\ reader.toolCallsMap =
          <<[index |-> 0, id |-> "id3", name |-> "ghost", arguments |-> <<"1">>]>>

\* The lines of SpecSse, as the server meant them: an event: line names a
\* type, any other line carries one JSON object.
IsEventLine(line) == line # << >> /\ line[1] = "event:"
NamedType(line) == <<line[Len(line)]>>
ObjectOf(line) ==
    Payload(line[CHOOSE n \in 1..Len(line) : line[n] \in PayloadNames])

\* The type named by the last event: line among lines[1..k-1], if any.
RECURSIVE RecordedBefore(_, _)
RecordedBefore(lines, k) ==
    IF k <= 1 THEN << >>
    ELSE IF IsEventLine(lines[k - 1]) THEN NamedType(lines[k - 1])
    ELSE RecordedBefore(lines, k - 1)

\* The event kind of data line k: its own type field when it has one,
\* otherwise the type of the most recent event: line.
KindOf(lines, k) ==
    IF ObjectOf(lines[k]).type # "" THEN <<ObjectOf(lines[k]).type>>
    ELSE RecordedBefore(lines, k)

\* What the channel is due for lines[from..]: the text of each data line whose
\* kind is content-delta or text-generation, up to the first data line whose
\* kind is message-end or stream-end, which completes it.
RECURSIVE DueFrom(_, _)
DueFrom(lines, from) ==
    IF from > Len(lines) THEN << >>
    ELSE IF IsEventLine(lines[from]) THEN DueFrom(lines, from + 1)
    ELSE IF KindOf(lines, from) \in {<<"message-end">>, <<"stream-end">>} THEN <<"complete">>
    ELSE IF KindOf(lines, from) \in {<<"content-delta">>, <<"text-generation">>}
    THEN (IF ObjectOf(lines[from]).deltaText # "" THEN <<ObjectOf(lines[from]).deltaText>>
          ELSE IF ObjectOf(lines[from]).text # "" THEN <<ObjectOf(lines[from]).text>>
          ELSE << >>) \o DueFrom(lines, from + 1)
    ELSE DueFrom(lines, from + 1)

\* C26: the channel is given what the lines read so far are due when the
\* kind of each data line is its own type field, or else the type of the most
\* recent event: line, however many data lines have used that type since and
\* however the lines were cut into reads; and until the stream ends the
\* recorded type is that of the most recent event: line.
C26_EventKind ==
    LET lines == CompleteLines(SubSeq(content, 1, pos))
    IN  /\ subject = DueFrom(lines, 1)
                        \o (IF reader.ending = "end-of-data" THEN <<"complete">> ELSE << >>)
        /\ reader.ending \in {"none", "end-of-data"} =>
                reader.currentEventType = RecordedBefore(lines, Len(lines) + 1)

\* C26 witness: after one event: line naming content-delta, two data lines
\* without type field, read in pieces of which one ended inside a line, have
\* each given their text.
C26_Witness ==
    /\ cutInLine
    /\ CompleteLines(content) =
          <<<<"event:", " ", "content-delta">>,
            <<"data:", " ", "{", "untyped-x", "}">>,
            <<"data:", " ", "{", "untyped-x", "}">>>>
    /\ subject = <<"x", "x">>
    /\ reader.currentEventType = <<"content-delta">>

(***************************************************************************)
(* Claims about ensureJsonString                                           *)
(***************************************************************************)
\* r is s without its leading and trailing white space, said without trim.
IsTrimOf(r, s) ==
    \E i \in 1..(Len(s) + 1) : \E j \in 0..Len(s) :
        /\ r = SubSeq(s, i, j)
        /\ \A k \in 1..(i - 1) : s[k] \in TrimWhiteSpace
        /\ \A k \in (j + 1)..Len(s) : s[k] \in TrimWhiteSpace
        /\ (r # << >> => r[1] \notin TrimWhiteSpace /\ r[Len(r)] \notin TrimWhiteSpace)

WhiteSpaceOnly(s) == \A k \in 1..Len(s) : s[k] \in TrimWhiteSpace

\* C9: ensureJsonString returns a string argument that parses as JSON with only
\* its leading and trailing white space removed, returns {} for undefined,
\* null, the empty string and a white-space-only string, and whatever it
\* returns parses as JSON.
C9_EnsureJsonString ==
    ret # NotCalled =>
        /\ (val.t = "string" /\ JSONparse(val.s).ok => IsTrimOf(ret, val.s))
        /\ (val.t \in {"undefined", "null"} => ret = <<"{", "}">>)
        /\ (val.t = "string" /\ WhiteSpaceOnly(val.s) => ret = <<"{", "}">>)
        /\ JSONparse(ret).ok

\* C9 witness: a JSON text with white space around it has been normalised.
C9_Witness ==
    /\ ret # NotCalled
    /\ val.t = "string"
    /\ JSONparse(val.s).ok
    /\ ret # val.s

\* C10 as stated: for every non-empty string t that does not parse as JSON,
\* ensureJsonString(t) is a string literal whose parsed value is exactly t.
C10_ExactRoundTrip ==
    (ret # NotCalled /\ val.t = "string" /\ val.s # << >> /\ ~JSONparse(val.s).ok) =>
        /\ JSONparse(ret).ok
        /\ JSONparse(ret).kind = "string"
        /\ JSONparse(ret).str = val.s

\* C10 as amended: for every string t whose trimmed form is non-empty and does
\* not parse as JSON, ensureJsonString(t) is a string literal whose parsed
\* value is t without its leading and trailing white space.
C10_TrimmedRoundTrip ==
    (ret # NotCalled /\ val.t = "string"
        /\ \E i \in 1..Len(val.s) : \E j \in i..Len(val.s) :
              IsTrimOf(SubSeq(val.s, i, j), val.s) /\ ~JSONparse(SubSeq(val.s, i, j)).ok) =>
        /\ JSONparse(ret).ok
        /\ JSONparse(ret).kind = "string"
        /\ IsTrimOf(JSONparse(ret).str, val.s)

\* C10 witness: free text with white space around it, holding a character
\* that serialisation has to escape, has been normalised.
C10_Witness ==
    /\ ret # NotCalled
    /\ val.t = "string"
    /\ ~JSONparse(trim(val.s)).ok
    /\ trim(val.s) # val.s
    /\ \E k \in 1..Len(val.s) : val.s[k] = "\""
    /\ JSONparse(ret).kind = "string"

=============================================================================
